---- MODULE Spec2Model ----
(***************************************************************************)
(* Message pipeline of the Telegram channel duplicator:                    *)
(*   src/src/duplicator.py  ChannelDuplicator (handler, album settle task) *)
(*   src/src/filters.py     MessageFilter                                  *)
(*   src/src/transformer.py TextTransformer                                *)
(*   src/src/config.py      Config                                         *)
(*                                                                         *)
(* Everything runs on one asyncio event loop.  A step of the model is the  *)
(* code one task runs between two suspension points.  Time is the loop's   *)
(* clock, counted in ticks; a timer never fires before its deadline but    *)
(* may fire late.                                                          *)
(*                                                                         *)
(* Strings are sequences of one-character strings.  Python's None and ""   *)
(* are both falsy at every place the pipeline reads a text, and both are   *)
(* written << >> here.                                                     *)
(***************************************************************************)
EXTENDS Integers, Sequences, FiniteSets, TLC

(* ------------------------------ bounds --------------------------------- *)
\* clock ticks per second
TicksPerSecond == 2
\* last tick at which a new message may still arrive
MaxTime == 2
\* message ids of the source chat are 1..MaxMsgId
MaxMsgId == 3
\* album identifiers are 1..MaxGroup; 0 is "no grouped_id"
MaxGroup == 1
\* texts a message may carry
Texts == { << >>, <<"a">> }
\* min_length and max_length are configured in 0..MaxLength
MaxLength == 2
\* a configuration lists at most MaxRules replacement rules
MaxRules == 2

\* the longest wait a rate-limit signal carries, in seconds
MaxWait == 2

\* the interpreter's recursion limit, counted in nested calls of a send method
RecursionLimit == 2

\* album identifiers of the two-album pipeline are 1..TwoAlbumGroups
TwoAlbumGroups == 2

\* the tray application starts at most MaxStartThreads start threads and
\* MaxStopThreads stop threads
MaxStartThreads == 2

MaxStopThreads == 2

\* max_queue_size of the message logger
MaxQueueSize == 2

\* message events the message logger handles are numbered 1..MaxRecords
MaxRecords == 3

\* source_channels lists at most MaxSources channels
MaxSources == 2

\* message events the client receives while a start is followed
MaxEvents == 2

(* --------------------------- program constants ------------------------- *)
MEDIA_GROUP_WAIT_TIME == 1 * TicksPerSecond

VARIABLES
    config,              \* Config._config, the loaded YAML values
    now,                 \* event loop clock
    media_groups,        \* ChannelDuplicator._media_groups
    media_group_tasks,   \* ChannelDuplicator._media_group_tasks (values index tasks)
    tasks,               \* every settle task ever created, in creation order
    calls,               \* client calls issued to the target, in order
    arrivals,            \* history: messages handled, with time and handler result
    settled,             \* history: batches handed to group processing
    probe,               \* the last direct call of a filter or transformer method
    send,                \* one call of a send method, followed to its end
    startup,             \* one call of start(), followed through channel resolution
    message_logger,      \* MessageLogger: queue, flags, and the positions of its threads
    tray                 \* TrayApp: state, duplicator, event_loop, and its background threads

vars == <<config, now, media_groups, media_group_tasks, tasks, calls, arrivals, settled, probe, send, startup, message_logger, tray>>

(* ------------------------------ strings -------------------------------- *)
\* str.lower() on the model's alphabet
LowerChar(c) ==
    IF c = "A" THEN "a" ELSE IF c = "B" THEN "b" ELSE IF c = "R" THEN "r" ELSE c

Lower(s) == [i \in 1..Len(s) |-> LowerChar(s[i])]

\* s[i : i+len(k)] == k
MatchesAt(k, s, i) ==
    /\ i + Len(k) - 1 <= Len(s)
    /\ \A j \in 1..Len(k) : s[i + j - 1] = k[j]

\* Python's "k in s"
Contains(k, s) == \E i \in 1..(Len(s) + 1) : MatchesAt(k, s, i)

\* str.endswith
EndsWith(s, suffix) ==
    /\ Len(suffix) <= Len(s)
    /\ MatchesAt(suffix, s, Len(s) - Len(suffix) + 1)

(* ------------------------- regular expressions ------------------------- *)
\* A pattern is a sequence of tokens.  The patterns of the model are the
\* literals (characters only), the anchor "$" (end of the string), and
\* patterns holding an unclosed "(", which re.compile rejects.
\* re.compile: [exc, val]
re_compile(pattern) ==
    [ exc |-> IF \E i \in 1..Len(pattern) : pattern[i] = "(" THEN "re.error" ELSE "",
      val |-> pattern ]

\* pattern.search(s) is not None, for a pattern compiled with IGNORECASE
PatternSearch(pat, s) ==
    IF pat = <<"$">> THEN TRUE ELSE Contains(Lower(pat), Lower(s))

(* ------------------------------ Config --------------------------------- *)
\* the attributes class Config defines
ConfigProperties ==
    { "target_channel", "source_channels", "my_channel_name", "my_username",
      "my_contact_username", "replacements", "negative_keywords",
      "negative_patterns", "ignore_forwarded", "min_length", "max_length" }

\* the YAML documents the model loads
ConfigChoices ==
    { [ ignore_forwarded     |-> f,
        min_length           |-> 0,
        max_length           |-> 0,
        require_keywords     |-> << >>,
        skip_file_extensions |-> << <<".", "r">> >>,
        negative_keywords    |-> << <<"b">> >>,
        negative_patterns    |-> << >>,
        replacements         |-> << [pattern |-> <<"a">>, replace |-> <<"b", "{{my_username}}">>] >>,
        my_channel_name      |-> <<"c">>,
        my_username          |-> <<"u">>,
        my_contact_username  |-> <<"k">> ] : f \in BOOLEAN }

get_template_vars(cfg) ==
    [ n \in {"my_channel_name", "my_username", "my_contact_username"} |->
        IF n = "my_channel_name" THEN cfg.my_channel_name
        ELSE IF n = "my_username" THEN cfg.my_username
        ELSE cfg.my_contact_username ]

(* --------------------------- TextTransformer --------------------------- *)
\* A replacement string is a sequence of tokens: a character, a whole
\* "{{name}}" placeholder, which is what the regex \{\{(\w+)\}\} matches, or
\* the group reference "\\1".
PlaceholderOf(n) ==
    IF n = "my_channel_name" THEN "{{my_channel_name}}"
    ELSE IF n = "my_username" THEN "{{my_username}}"
    ELSE "{{my_contact_username}}"

\* faulty variant: a placeholder with an unknown name is removed
RECURSIVE _substitute_template_DropsUnknown(_, _)
_substitute_template_DropsUnknown(cfg, text) ==
    IF text = << >> THEN << >>
    ELSE LET tv   == get_template_vars(cfg)
             hit  == { n \in DOMAIN tv : PlaceholderOf(n) = Head(text) }
         IN  (IF hit # {} THEN tv[CHOOSE n \in hit : TRUE]
              ELSE IF Head(text) = "{{other}}" THEN << >>
              ELSE << Head(text) >>)
             \o _substitute_template_DropsUnknown(cfg, Tail(text))

RECURSIVE _substitute_template(_, _)
_substitute_template(cfg, text) ==
    IF text = << >> THEN << >>
    ELSE LET tv   == get_template_vars(cfg)
             hit  == { n \in DOMAIN tv : PlaceholderOf(n) = Head(text) }
         IN  (IF hit = {} THEN << Head(text) >> ELSE tv[CHOOSE n \in hit : TRUE])
             \o _substitute_template(cfg, Tail(text))

\* TextTransformer.__init__: rules with an empty pattern are left out, and
\* so are the rules whose pattern does not compile
RECURSIVE CompileReplacements(_, _)
CompileReplacements(cfg, rules) ==
    IF rules = << >> THEN << >>
    ELSE LET r == Head(rules)
         IN  (IF r.pattern = << >> \/ re_compile(r.pattern).exc # "" THEN << >>
              ELSE << [pattern |-> r.pattern,
                       replace |-> _substitute_template(cfg, r.replace)] >>)
             \o CompileReplacements(cfg, Tail(rules))

\* pattern.sub(replacement, s) when it returns, for a pattern compiled with
\* IGNORECASE: all non-overlapping matches, leftmost first; "$" matches
\* once, the empty string at the end of s
RECURSIVE PatternSub(_, _, _)
PatternSub(pat, rep, s) ==
    IF pat = <<"$">> THEN s \o rep
    ELSE IF Len(s) < Len(pat) \/ s = << >> THEN s
    ELSE IF MatchesAt(Lower(pat), Lower(s), 1)
         THEN rep \o PatternSub(pat, rep, SubSeq(s, Len(pat) + 1, Len(s)))
         ELSE << Head(s) >> \o PatternSub(pat, rep, Tail(s))

\* pattern.sub(replacement, s): [exc, val].  The replacement is parsed as a
\* template before any match is looked for, and a reference to a group the
\* pattern does not have is rejected with re.error.
pattern_sub(pat, rep, s) ==
    IF \E i \in 1..Len(rep) : rep[i] = "\\1"
    THEN [exc |-> "re.error", val |-> << >>]
    ELSE [exc |-> "", val |-> PatternSub(pat, rep, s)]

\* faulty variant: the text is lost when the rule raises
ApplyRule_ClearsOnError(rule, result) ==
    pattern_sub(rule.pattern, rule.replace, result).val

\* one turn of the loop of transform: try / pattern.sub / except Exception
ApplyRule(rule, result) ==
    LET new_result == pattern_sub(rule.pattern, rule.replace, result)
    IN  IF new_result.exc # "" THEN result ELSE new_result.val

\* faulty variant: the loop stops after the first rule
ApplyReplacements_FirstOnly(rules, result) ==
    IF rules = << >> THEN result ELSE ApplyRule(Head(rules), result)

RECURSIVE ApplyReplacements(_, _)
ApplyReplacements(rules, result) ==
    IF rules = << >> THEN result
    ELSE ApplyReplacements(Tail(rules), ApplyRule(Head(rules), result))

transform(cfg, text) ==
    IF text = << >> THEN text
    ELSE ApplyReplacements(CompileReplacements(cfg, cfg.replacements), text)

(* ---------------------------- MessageFilter ---------------------------- *)
\* A call that can raise returns [exc, val]; exc = "" when it returned.
is_forwarded(message) == message.fwd_from

matches_required_keyword(cfg, text) ==
    IF "require_keywords" \notin ConfigProperties
    THEN [exc |-> "AttributeError", val |-> FALSE]
    ELSE LET required == cfg.require_keywords
         IN  IF required = << >> THEN [exc |-> "", val |-> TRUE]
             ELSE IF text = << >> THEN [exc |-> "", val |-> FALSE]
             ELSE [exc |-> "",
                   val |-> \E i \in 1..Len(required) : Contains(required[i], text)]

\* index of the first matching keyword, 0 for None
matches_negative_keyword(cfg, text) ==
    IF text = << >> THEN 0
    ELSE LET hits == { i \in 1..Len(cfg.negative_keywords) :
                         Contains(Lower(cfg.negative_keywords[i]), Lower(text)) }
         IN  IF hits = {} THEN 0 ELSE CHOOSE i \in hits : \A j \in hits : i <= j

\* index in negative_patterns of the first compiled pattern that matches,
\* 0 for None; MessageFilter.__init__ leaves out the patterns that do not
\* compile
matches_negative_pattern(cfg, text) ==
    IF text = << >> THEN 0
    ELSE LET hits == { i \in 1..Len(cfg.negative_patterns) :
                         /\ re_compile(cfg.negative_patterns[i]).exc = ""
                         /\ PatternSearch(cfg.negative_patterns[i], text) }
         IN  IF hits = {} THEN 0 ELSE CHOOSE i \in hits : \A j \in hits : i <= j

\* faulty variant: a text of exactly max_length is refused
check_length_MaxExclusive(cfg, text) ==
    LET length == Len(text)
    IN  /\ ~(cfg.min_length > 0 /\ length < cfg.min_length)
        /\ ~(cfg.max_length > 0 /\ length >= cfg.max_length)

check_length(cfg, text) ==
    LET length == Len(text)
    IN  /\ ~(cfg.min_length > 0 /\ length < cfg.min_length)
        /\ ~(cfg.max_length > 0 /\ length > cfg.max_length)

\* "if matched_keyword:" tests the returned keyword for truth, and "" is not
NegativeKeywordDrops(cfg, text) ==
    LET i == matches_negative_keyword(cfg, text)
    IN  i # 0 /\ cfg.negative_keywords[i] # << >>

\* "if matched_pattern:" tests the returned pattern.pattern for truth
NegativePatternDrops(cfg, text) ==
    LET i == matches_negative_pattern(cfg, text)
    IN  i # 0 /\ cfg.negative_patterns[i] # << >>

\* faulty variant: a forwarded message is dropped without a reason
ForwardedReason_Empty == << >>

\* the reason returned with the drop of a forwarded message
ForwardedReason == <<"Message is forwarded">>

\* returns [exc, should_copy, reason]; the reason is a string: a fixed phrase
\* is one token of it, a quoted keyword is spelt out
should_copy(cfg, message) ==
    LET text == message.text
        req  == matches_required_keyword(cfg, text)
    IN  IF cfg.ignore_forwarded /\ is_forwarded(message)
        THEN [exc |-> "", should_copy |-> FALSE, reason |-> ForwardedReason]
        ELSE IF req.exc # ""
        THEN [exc |-> req.exc, should_copy |-> FALSE, reason |-> << >>]
        ELSE IF ~req.val
        THEN [exc |-> "", should_copy |-> FALSE, reason |-> <<"Missing required keyword">>]
        ELSE IF NegativeKeywordDrops(cfg, text)
        THEN [exc |-> "", should_copy |-> FALSE,
              reason |-> <<"Matched negative keyword: '">>
                         \o cfg.negative_keywords[matches_negative_keyword(cfg, text)]
                         \o <<"'">>]
        ELSE IF NegativePatternDrops(cfg, text)
        THEN [exc |-> "", should_copy |-> FALSE,
              reason |-> <<"Matched negative pattern: '">>
                         \o cfg.negative_patterns[matches_negative_pattern(cfg, text)]
                         \o <<"'">>]
        ELSE IF ~check_length(cfg, text)
        THEN [exc |-> "", should_copy |-> FALSE,
              reason |-> <<"Message length (", ToString(Len(text)), ") outside limits">>]
        ELSE [exc |-> "", should_copy |-> TRUE, reason |-> << >>]

(* ------------------------------ messages ------------------------------- *)
\* kinds of message.media; "none" is media = None
MediaKinds == {"none", "photo", "document", "webpage", "other"}

\* the messages the source chat can deliver: album items carry a photo,
\* other messages are plain text
InboundMessages ==
    { m \in [ id         : 1..MaxMsgId,
              grouped_id : 0..MaxGroup,
              text       : Texts,
              fwd_from   : BOOLEAN,
              media      : {"none", "photo"},
              filename   : { << >> } ] :
        (m.grouped_id # 0) <=> (m.media = "photo") }

(* ------------------------- keyed stores (dicts) ------------------------ *)
\* d[k] = v
DictSet(d, k, v) == [x \in (DOMAIN d) \cup {k} |-> IF x = k THEN v ELSE d[x]]

\* d.pop(k, None), the dict that is left
DictRemove(d, k) == [x \in (DOMAIN d) \ {k} |-> d[x]]

\* the defaultdict(list) read self._media_groups[k]
GroupList(groups, k) == IF k \in DOMAIN groups THEN groups[k] ELSE << >>

(* ----------------------------- send step ------------------------------- *)
\* A client call as it is issued: [op, files, text, by]; files are message
\* ids, text is the text or caption, by names the message or settle task
\* whose pipeline issued it: [kind |-> "msg" or "task", ref |-> id or index].
ClientCall(op, files, text, by) == [op |-> op, files |-> files, text |-> text, by |-> by]

_get_document_filename(message) ==
    IF message.media # "document" THEN << >> ELSE message.filename

\* faulty variant: no file is skipped and nothing is raised
_should_skip_file_NeverSkips(cfg, filename) == [exc |-> "", val |-> FALSE]

\* returns [exc, val]
_should_skip_file(cfg, filename) ==
    IF filename = << >> THEN [exc |-> "", val |-> FALSE]
    ELSE IF "skip_file_extensions" \notin ConfigProperties
    THEN [exc |-> "AttributeError", val |-> FALSE]
    ELSE LET skip == cfg.skip_file_extensions
         IN  [exc |-> "",
              val |-> \E i \in 1..Len(skip) : EndsWith(Lower(filename), Lower(skip[i]))]

\* faulty variant: an empty text is sent too
_send_text_message_SendsEmpty(text, by) ==
    << ClientCall("send_message", << >>, text, by) >>

\* _send_text_message up to its first suspension: the calls it issues
_send_text_message(text, by) ==
    IF text = << >> THEN << >> ELSE << ClientCall("send_message", << >>, text, by) >>

\* faulty variant: a web-page preview is handled like any other media
_send_media_message_ForwardsPreview(cfg, message, caption, by) ==
    LET skip == _should_skip_file(cfg, _get_document_filename(message))
    IN  IF skip.exc # "" \/ skip.val THEN << >>
        ELSE IF message.media \in {"photo", "document"}
        THEN << ClientCall("send_file", << message.id >>, caption, by) >>
        ELSE << ClientCall("download_media", << message.id >>, << >>, by) >>

\* _send_media_message up to its first suspension
_send_media_message(cfg, message, caption, by) ==
    LET skip == _should_skip_file(cfg, _get_document_filename(message))
    IN  IF message.media = "webpage" THEN _send_text_message(caption, by)
        ELSE IF skip.exc # "" \/ skip.val THEN << >>
        ELSE IF message.media \in {"photo", "document"}
        THEN << ClientCall("send_file", << message.id >>, caption, by) >>
        ELSE << ClientCall("download_media", << message.id >>, << >>, by) >>

\* _send_to_target up to its first suspension
_send_to_target(cfg, message, transformed_text, by) ==
    IF message.media # "none"
    THEN _send_media_message(cfg, message, transformed_text, by)
    ELSE _send_text_message(transformed_text, by)

\* the loop of _send_media_group that collects the files: [exc, val]
RECURSIVE CollectFiles(_, _)
CollectFiles(cfg, messages) ==
    IF messages = << >> THEN [exc |-> "", val |-> << >>]
    ELSE LET msg  == Head(messages)
             skip == _should_skip_file(cfg, _get_document_filename(msg))
             rest == CollectFiles(cfg, Tail(messages))
         IN  IF msg.media = "photo"
             THEN [exc |-> rest.exc, val |-> << msg.id >> \o rest.val]
             ELSE IF msg.media = "document"
             THEN IF skip.exc # "" THEN [exc |-> skip.exc, val |-> << >>]
                  ELSE IF skip.val THEN rest
                  ELSE [exc |-> rest.exc, val |-> << msg.id >> \o rest.val]
             ELSE rest

\* _send_media_group up to its first suspension
_send_media_group(cfg, messages, caption, by) ==
    LET files == CollectFiles(cfg, messages)
    IN  IF files.exc # "" THEN << >>
        ELSE IF files.val = << >> THEN _send_text_message(caption, by)
        ELSE << ClientCall("send_file", files.val, caption, by) >>

(* ---------------------------- settle tasks ----------------------------- *)
\* pc of a settle task:
\*   "created"   scheduled by create_task, first step not yet run
\*   "sleeping"  suspended in asyncio.sleep(MEDIA_GROUP_WAIT_TIME)
\*   "ready"     the sleep's timer has fired, the task has not resumed yet
\*   "sending"   suspended in a client call of _send_media_group
\*   "returned"  finished normally     "failed"  finished with an exception
\*   "cancelled" finished with CancelledError
\* must_cancel: Task.cancel() was called and CancelledError is still to be
\* thrown into the coroutine at its next step.
Suspended == {"created", "sleeping", "ready", "sending"}

NewTask(gid) == [gid |-> gid, pc |-> "created", must_cancel |-> FALSE, deadline |-> 0]

\* a timer that is scheduled and has neither been cancelled nor run its settle
Live(t) == tasks[t].pc \in {"created", "sleeping", "ready"} /\ ~tasks[t].must_cancel

\* faulty variant: a task whose sleep has returned goes on although cancelled
MayResume_IgnoresCancel(task) == TRUE

\* a task that was cancelled while suspended in asyncio.sleep gets
\* CancelledError at the await instead of going on
MayResume(task) == ~task.must_cancel

\* faulty variant: the sleep is one tick shorter than MEDIA_GROUP_WAIT_TIME
SleepDeadline_Short(n) == n + MEDIA_GROUP_WAIT_TIME - 1

\* the deadline asyncio.sleep(MEDIA_GROUP_WAIT_TIME) sets when called at time n
SleepDeadline(n) == n + MEDIA_GROUP_WAIT_TIME

\* faulty variant: the pending task is not cancelled
CancelExisting_Never(ts, registry, gid) == ts

\* faulty variant: every pending task is cancelled, whatever its album
CancelExisting_All(ts, registry, gid) ==
    [t \in 1..Len(ts) |->
        IF ts[t].pc \in Suspended /\ \E g \in DOMAIN registry : registry[g] = t
        THEN [ts[t] EXCEPT !.must_cancel = TRUE]
        ELSE ts[t]]

\* "if grouped_id in self._media_group_tasks: ...[grouped_id].cancel()";
\* Task.cancel() does nothing to a task that is done
CancelExisting(ts, registry, gid) ==
    IF gid \in DOMAIN registry /\ ts[registry[gid]].pc \in Suspended
    THEN [ts EXCEPT ![registry[gid]].must_cancel = TRUE]
    ELSE ts

\* faulty variant: the arrival replaces the buffer instead of appending to it
AppendToGroup_Replace(groups, gid, message) == DictSet(groups, gid, << message >>)

\* "self._media_groups[grouped_id].append(message)"
AppendToGroup(groups, gid, message) ==
    DictSet(groups, gid, Append(GroupList(groups, gid), message))

\* faulty variant: the cancel is applied to the task that was just created
ScheduleSettle_Cancelled(ts, gid) == Append(ts, [NewTask(gid) EXCEPT !.must_cancel = TRUE])

\* "self._media_group_tasks[grouped_id] = asyncio.create_task(...)", the task list
ScheduleSettle(ts, gid) == Append(ts, NewTask(gid))

\* faulty variant: the buffer is read through the defaultdict and cleared,
\* which leaves its key in the store
PopGroup_LeavesKey(groups, gid) == DictSet(groups, gid, << >>)

\* faulty variant: the buffer is read with get() and stays in the store
PopGroup_Keep(groups, gid) == groups

\* "self._media_groups.pop(grouped_id, [])", the store that is left
PopGroup(groups, gid) == DictRemove(groups, gid)

\* list.sort(key=lambda m: m.id): stable insertion by ascending id
RECURSIVE InsertById(_, _)
InsertById(sorted, m) ==
    IF sorted = << >> THEN << m >>
    ELSE IF m.id < Head(sorted).id THEN << m >> \o sorted
    ELSE << Head(sorted) >> \o InsertById(Tail(sorted), m)

\* faulty variant: the batch is processed in arrival order
SortById_ArrivalOrder(messages) == messages

RECURSIVE SortById(_)
SortById(messages) ==
    IF messages = << >> THEN << >>
    ELSE InsertById(SortById(SubSeq(messages, 1, Len(messages) - 1)),
                    messages[Len(messages)])

\* faulty variant: the first message is the caption message whatever it carries
CaptionMsg_First(messages) == IF messages = << >> THEN 0 ELSE 1

\* the loop "for msg in messages: ... if text: ... break":
\* index of caption_msg in messages, 0 for None
CaptionMsg(messages) ==
    LET withText == { i \in 1..Len(messages) : messages[i].text # << >> }
    IN  IF withText = {} THEN 0 ELSE CHOOSE i \in withText : \A j \in withText : i <= j

\* faulty variant: the settle task ignores the filter's decision
GroupProceeds_Always(decision) == TRUE

\* "if not should_copy: ... return" of the settle task, negated
GroupProceeds(decision) == decision.should_copy

\* faulty variant: the handler ignores the filter's decision
SingleProceeds_Always(decision) == TRUE

\* "if not should_copy: ... return" of the handler, negated
SingleProceeds(decision) == decision.should_copy

(* ------------------------------- Init ---------------------------------- *)
\* no method has been called directly
NoProbe == [fn |-> "none", arg |-> << >>, out |-> << >>]

\* no send method has been called directly
NoSend ==
    [ fn |-> "none", message |-> << >>, messages |-> << >>, text |-> << >>,
      pc |-> "none", depth |-> 0, wake |-> 0, issued |-> << >>, answers |-> << >> ]

\* TrayApp(): stopped, no duplicator, no event loop, no background thread
NoTray ==
    [ state |-> "STOPPED", duplicator |-> 0, event_loop |-> 0,
      starts |-> << >>, stops |-> << >>, halted |-> { }, user |-> "none" ]

\* no message logger has been created
NoLogger ==
    [ queue |-> << >>, running |-> FALSE, registered |-> FALSE, connection |-> FALSE,
      handler |-> [pc |-> "idle", record |-> 0, oldest |-> 0, discarded |-> 0, raced |-> FALSE],
      next_record |-> 1,
      worker |-> [pc |-> "none", record |-> 0, retry_queue |-> << >>, i |-> 0, still_failed |-> << >>],
      stopper |-> "idle",
      events |-> << >>, dequeued |-> << >>, inserted |-> << >>, failed |-> << >> ]

\* start() has not been called
NoStartup ==
    [ pc |-> "none", channels |-> << >>, i |-> 0, target_entity |-> 0,
      source_ids |-> << >>, chats |-> { }, registered |-> FALSE,
      resolved |-> << >>, events |-> << >> ]

Init ==
    /\ probe = NoProbe
    /\ tray = NoTray
    /\ message_logger = NoLogger
    /\ startup = NoStartup
    /\ send = NoSend
    /\ config \in ConfigChoices
    /\ now = 0
    /\ media_groups = << >>
    /\ media_group_tasks = << >>
    /\ tasks = << >>
    /\ calls = << >>
    /\ arrivals = << >>
    /\ settled = << >>

Arrived(id) == \E i \in 1..Len(arrivals) : arrivals[i].msg.id = id

\* history: the arrivals that carried grouped_id g, in arrival order
GroupArrivals(g) == SelectSeq(arrivals, LAMBDA a : a.msg.grouped_id = g)

\* history: time of the most recent arrival carrying grouped_id g (0 if none)
LastArrival(g) ==
    LET ga == GroupArrivals(g) IN IF ga = << >> THEN 0 ELSE ga[Len(ga)].at

(* ------------------------------ actions -------------------------------- *)
\* The loop has a callback to run now for task t: its first step, the throw
\* of CancelledError, its timer that is due, or its resumption.  The loop
\* runs such callbacks before its clock reaches the next tick.
LoopHasWork(t) ==
    \/ tasks[t].pc \in Suspended /\ tasks[t].must_cancel
    \/ tasks[t].pc \in {"created", "ready"}
    \/ tasks[t].pc = "sleeping" /\ now >= tasks[t].deadline

\* the loop's clock advances
Tick ==
    /\ \/ now < MaxTime
       \/ \E t \in 1..Len(tasks) : tasks[t].pc = "sleeping" /\ now < tasks[t].deadline
    /\ \A t \in 1..Len(tasks) : ~LoopHasWork(t)
    /\ now' = now + 1
    /\ UNCHANGED <<tray, message_logger, startup, send, probe, config, media_groups, media_group_tasks, tasks, calls, arrivals, settled>>

\* _handle_message, grouped path (runs without suspending)
HandleGrouped(m) ==
    LET gid == m.grouped_id
        ts  == CancelExisting(tasks, media_group_tasks, gid)
    IN  /\ media_groups' = AppendToGroup(media_groups, gid, m)
        /\ tasks' = ScheduleSettle(ts, gid)
        /\ media_group_tasks' = DictSet(media_group_tasks, gid, Len(ts) + 1)
        /\ arrivals' = Append(arrivals, [msg |-> m, at |-> now, result |-> "buffered"])
        /\ UNCHANGED <<calls, settled>>

\* _handle_message, non-grouped path up to its first suspension
HandleSingle(m) ==
    LET decision == should_copy(config, m)
        text     == transform(config, m.text)
        result   == IF decision.exc # "" THEN "raised"
                    ELSE IF ~SingleProceeds(decision) THEN "dropped"
                    ELSE "copying"
    IN  /\ calls' = IF result = "copying"
                    THEN calls \o _send_to_target(config, m, text, [kind |-> "msg", ref |-> m.id])
                    ELSE calls
        /\ arrivals' = Append(arrivals, [msg |-> m, at |-> now, result |-> result])
        /\ UNCHANGED <<media_groups, media_group_tasks, tasks, settled>>

\* faulty variant: no message is taken for an album item
HasGroupedId_Never(m) == FALSE

\* "if message.grouped_id:"
HasGroupedId(m) == m.grouped_id # 0

\* the NewMessage handler: _handle_message(event.message)
HandleMessage(m) ==
    /\ now <= MaxTime
    /\ ~Arrived(m.id)
    /\ IF HasGroupedId(m) THEN HandleGrouped(m) ELSE HandleSingle(m)
    /\ UNCHANGED <<tray, message_logger, startup, send, probe, config, now>>

\* first step of _process_media_group_delayed: it calls asyncio.sleep
TaskStart(t) ==
    /\ tasks[t].pc = "created"
    /\ ~tasks[t].must_cancel
    /\ tasks' = [tasks EXCEPT ![t].pc = "sleeping", ![t].deadline = SleepDeadline(now)]
    /\ UNCHANGED <<tray, message_logger, startup, send, probe, config, now, media_groups, media_group_tasks, calls, arrivals, settled>>

\* the sleep's timer fires: the task is scheduled to resume
TimerFire(t) ==
    /\ tasks[t].pc = "sleeping"
    /\ ~tasks[t].must_cancel
    /\ now >= tasks[t].deadline
    /\ tasks' = [tasks EXCEPT ![t].pc = "ready"]
    /\ UNCHANGED <<tray, message_logger, startup, send, probe, config, now, media_groups, media_group_tasks, calls, arrivals, settled>>

\* CancelledError is thrown into a cancelled task at its next step
TaskCancelled(t) ==
    /\ tasks[t].pc \in Suspended
    /\ tasks[t].must_cancel
    /\ tasks' = [tasks EXCEPT ![t].pc = "cancelled", ![t].must_cancel = FALSE]
    /\ UNCHANGED <<tray, message_logger, startup, send, probe, config, now, media_groups, media_group_tasks, calls, arrivals, settled>>

\* _process_media_group_delayed from the return of the sleep up to its
\* first suspension or its end
TaskResume(t) ==
    LET gid         == tasks[t].gid
        messages    == GroupList(media_groups, gid)
        sorted      == SortById(messages)
        cm          == CaptionMsg(sorted)
        caption     == IF cm = 0 THEN << >> ELSE sorted[cm].text
        filter_msg  == IF cm # 0 THEN sorted[cm] ELSE sorted[1]
        decision    == should_copy(config, filter_msg)
        transformed == IF caption # << >> THEN transform(config, caption) ELSE << >>
        issued      == _send_media_group(config, sorted, transformed, [kind |-> "task", ref |-> t])
        result      == IF decision.exc # "" THEN "raised"
                       ELSE IF ~GroupProceeds(decision) THEN "dropped"
                       ELSE "copying"
    IN  /\ tasks[t].pc = "ready"
        /\ MayResume(tasks[t])
        /\ media_groups' = PopGroup(media_groups, gid)
        /\ media_group_tasks' = DictRemove(media_group_tasks, gid)
        /\ IF messages = << >>
           THEN /\ tasks' = [tasks EXCEPT ![t].pc = "returned"]
                /\ UNCHANGED <<calls, settled>>
           ELSE /\ settled' = Append(settled,
                        [ gid |-> gid, task |-> t, at |-> now,
                          last_arrival |-> LastArrival(gid),
                          buffered |-> messages, batch |-> sorted,
                          filter_msg |-> filter_msg.id, caption_text |-> caption,
                          decision |-> decision, result |-> result ])
                /\ calls' = IF result = "copying" THEN calls \o issued ELSE calls
                /\ tasks' = [tasks EXCEPT ![t].pc =
                        IF result = "raised" THEN "failed"
                        ELSE IF result = "dropped" \/ issued = << >> THEN "returned"
                        ELSE "sending"]
        /\ UNCHANGED <<tray, message_logger, startup, send, probe, config, now, arrivals>>

Next ==
    \/ Tick
    \/ \E m \in InboundMessages : HandleMessage(m)
    \/ \E t \in 1..Len(tasks) : TaskStart(t)
    \/ \E t \in 1..Len(tasks) : TimerFire(t)
    \/ \E t \in 1..Len(tasks) : TaskCancelled(t)
    \/ \E t \in 1..Len(tasks) : TaskResume(t)

Spec == Init /\ [][Next]_vars

(* ------------------------ fairness of the loop ------------------------- *)
\* The event loop keeps running: its clock advances and every callback that
\* is ready is eventually run.  Arrivals are under no obligation.
\* The messages delivered under FairSpec: unforwarded, each with a text.
QuietMessages == { m \in InboundMessages : m.text # << >> /\ ~m.fwd_from }

FairNext ==
    \/ Tick
    \/ \E m \in QuietMessages : HandleMessage(m)
    \/ \E t \in 1..Len(tasks) : TaskStart(t)
    \/ \E t \in 1..Len(tasks) : TimerFire(t)
    \/ \E t \in 1..Len(tasks) : TaskCancelled(t)
    \/ \E t \in 1..Len(tasks) : TaskResume(t)

FairSpec ==
    /\ Init
    /\ [][FairNext]_vars
    /\ WF_vars(Tick)
    /\ WF_vars(\E t \in 1..Len(tasks) : TaskStart(t))
    /\ WF_vars(\E t \in 1..Len(tasks) : TimerFire(t))
    /\ WF_vars(\E t \in 1..Len(tasks) : TaskCancelled(t))
    /\ WF_vars(\E t \in 1..Len(tasks) : TaskResume(t))

(* ------------------------ two albums at a time ------------------------- *)
\* The pipeline with messages of two albums: unforwarded, each with a text.
TwoAlbumMessages ==
    { m \in [ id         : 1..MaxMsgId,
              grouped_id : 0..TwoAlbumGroups,
              text       : { <<"a">> },
              fwd_from   : {FALSE},
              media      : {"none", "photo"},
              filename   : { << >> } ] :
        (m.grouped_id # 0) <=> (m.media = "photo") }

TwoAlbumNext ==
    \/ Tick
    \/ \E m \in TwoAlbumMessages : HandleMessage(m)
    \/ \E t \in 1..Len(tasks) : TaskStart(t)
    \/ \E t \in 1..Len(tasks) : TimerFire(t)
    \/ \E t \in 1..Len(tasks) : TaskCancelled(t)
    \/ \E t \in 1..Len(tasks) : TaskResume(t)

TwoAlbumSpec == Init /\ [][TwoAlbumNext]_vars

(* --------------------- the filter, called directly --------------------- *)
\* MessageFilter's methods applied to one text or message at a time, under
\* every configuration of FilterConfigs; probe keeps the last call.
FilterTexts ==
    { << >>, <<"a">>, <<"b">>, <<"B">>, <<"a", "b">>, <<"c", "c", "c">> }

\* lists of keywords; << >> inside a list is the keyword ""
KeywordLists ==
    { << >>, << <<"b">> >>, << << >>, <<"b">> >>, << <<"B">>, <<"a">> >>, << << >> >> }

PatternLists == { << >>, << <<"a", "b">> >>, << <<"(">>, <<"$">> >> }

FilterConfigs ==
    { [ ignore_forwarded     |-> f,
        min_length           |-> lo,
        max_length           |-> hi,
        require_keywords     |-> rq,
        skip_file_extensions |-> << >>,
        negative_keywords    |-> nk,
        negative_patterns    |-> np,
        replacements         |-> << >>,
        my_channel_name      |-> << >>,
        my_username          |-> << >>,
        my_contact_username  |-> << >> ] :
        f \in BOOLEAN, lo \in 0..MaxLength, hi \in 0..MaxLength,
        rq \in KeywordLists, nk \in KeywordLists, np \in PatternLists }

FilterMessages ==
    [ id : {1}, grouped_id : {0}, text : FilterTexts, fwd_from : BOOLEAN,
      media : {"none"}, filename : { << >> } ]

FilterInit ==
    /\ config \in FilterConfigs
    /\ send = NoSend
    /\ probe = NoProbe
    /\ tray = NoTray
    /\ message_logger = NoLogger
    /\ startup = NoStartup
    /\ now = 0
    /\ media_groups = << >>
    /\ media_group_tasks = << >>
    /\ tasks = << >>
    /\ calls = << >>
    /\ arrivals = << >>
    /\ settled = << >>

\* self.filter.should_copy(message)
CallShouldCopy(m) ==
    /\ probe' = [fn |-> "should_copy", arg |-> m, out |-> should_copy(config, m)]
    /\ UNCHANGED <<tray, message_logger, startup, send, config, now, media_groups, media_group_tasks, tasks, calls, arrivals, settled>>

\* self.matches_required_keyword(text)
CallMatchesRequiredKeyword(text) ==
    /\ probe' = [fn |-> "matches_required_keyword", arg |-> text,
                 out |-> matches_required_keyword(config, text)]
    /\ UNCHANGED <<tray, message_logger, startup, send, config, now, media_groups, media_group_tasks, tasks, calls, arrivals, settled>>

\* the negative-keyword step of should_copy: matches_negative_keyword(text),
\* the test of what it returned, and the reason of the drop
CallNegativeKeywordCheck(text) ==
    LET i == matches_negative_keyword(config, text)
    IN  /\ probe' = [fn |-> "negative_keyword_check", arg |-> text,
                     out |-> [ matched |-> i,
                               dropped |-> NegativeKeywordDrops(config, text),
                               reason  |-> IF NegativeKeywordDrops(config, text)
                                           THEN <<"Matched negative keyword: '">>
                                                \o config.negative_keywords[i] \o <<"'">>
                                           ELSE << >> ]]
        /\ UNCHANGED <<tray, message_logger, startup, send, config, now, media_groups, media_group_tasks, tasks, calls, arrivals, settled>>

\* self.check_length(text)
CallCheckLength(text) ==
    /\ probe' = [fn |-> "check_length", arg |-> text, out |-> check_length(config, text)]
    /\ UNCHANGED <<tray, message_logger, startup, send, config, now, media_groups, media_group_tasks, tasks, calls, arrivals, settled>>

FilterNext ==
    \/ \E m \in FilterMessages : CallShouldCopy(m)
    \/ \E text \in FilterTexts : CallMatchesRequiredKeyword(text)
    \/ \E text \in FilterTexts : CallNegativeKeywordCheck(text)
    \/ \E text \in FilterTexts : CallCheckLength(text)

FilterSpec == FilterInit /\ [][FilterNext]_vars

(* ------------------- the transformer, called directly ------------------ *)
\* TextTransformer loaded from every configuration of TransformConfigs, and
\* its methods applied to one text at a time; probe keeps the last call.
RulePatterns == { << >>, <<"a">>, <<"b">>, <<"$">>, <<"(">> }

RuleReplaces ==
    { <<"b">>, <<"a", "a">>, <<"{{my_username}}", "{{other}}">>,
      <<"{{my_channel_name}}", "x", "{{my_contact_username}}">>, <<"\\1">> }

\* the entries of "replacements" in the YAML
Rules == [pattern : RulePatterns, replace : RuleReplaces]

RuleLists == UNION { [1..n -> Rules] : n \in 0..MaxRules }

TransformTexts == { << >>, <<"a">>, <<"A", "b">>, <<"b", "a", "a">> }

TransformConfigs ==
    { [ ignore_forwarded     |-> TRUE,
        min_length           |-> 0,
        max_length           |-> 0,
        require_keywords     |-> << >>,
        skip_file_extensions |-> << >>,
        negative_keywords    |-> << >>,
        negative_patterns    |-> << >>,
        replacements         |-> rl,
        my_channel_name      |-> <<"c">>,
        my_username          |-> u,
        my_contact_username  |-> <<"k">> ] :
        rl \in RuleLists, u \in { << >>, <<"u", "v">> } }

TransformInit ==
    /\ config \in TransformConfigs
    /\ send = NoSend
    /\ probe = NoProbe
    /\ tray = NoTray
    /\ message_logger = NoLogger
    /\ startup = NoStartup
    /\ now = 0
    /\ media_groups = << >>
    /\ media_group_tasks = << >>
    /\ tasks = << >>
    /\ calls = << >>
    /\ arrivals = << >>
    /\ settled = << >>

\* TextTransformer(config): the compiled rules it keeps
LoadTransformer ==
    /\ probe' = [fn |-> "__init__", arg |-> config.replacements,
                 out |-> CompileReplacements(config, config.replacements)]
    /\ UNCHANGED <<tray, message_logger, startup, send, config, now, media_groups, media_group_tasks, tasks, calls, arrivals, settled>>

\* self._substitute_template(text)
CallSubstituteTemplate(text) ==
    /\ probe' = [fn |-> "_substitute_template", arg |-> text,
                 out |-> _substitute_template(config, text)]
    /\ UNCHANGED <<tray, message_logger, startup, send, config, now, media_groups, media_group_tasks, tasks, calls, arrivals, settled>>

\* self.transformer.transform(text)
CallTransform(text) ==
    /\ probe' = [fn |-> "transform", arg |-> text, out |-> transform(config, text)]
    /\ UNCHANGED <<tray, message_logger, startup, send, config, now, media_groups, media_group_tasks, tasks, calls, arrivals, settled>>

TransformNext ==
    \/ LoadTransformer
    \/ \E text \in RuleReplaces : CallSubstituteTemplate(text)
    \/ \E text \in TransformTexts : CallTransform(text)

TransformSpec == TransformInit /\ [][TransformNext]_vars

(* --------------------- the send methods, called directly --------------- *)
\* A send is one call of _send_to_target or of _send_media_group, followed
\* through its suspensions to its end.  send.pc is
\*   "called"    the method has been called and has not run yet
\*   "awaiting"  suspended in the client call that is last in calls
\*   "sleeping"  suspended in asyncio.sleep(e.seconds) until send.wake
\*   "returned"  the method returned without an exception being handled
\*   "failed"    an exception handler logged the error and the method returned
\*   "escaped"   an exception left the method
\* send.depth counts the nested calls of the method the retries have made,
\* send.issued[k] is the time calls[k] was issued, and send.answers[k] is the
\* client's answer to calls[k]: [kind, seconds, at].
FileNames == { << >>, <<"x", ".", "R">>, <<"x", ".", "t">> }

\* the messages a send method can be given: only a document carries a file name
SendMessages(ids) ==
    { m \in [ id         : ids,
              grouped_id : {0},
              text       : { << >> },
              fwd_from   : {FALSE},
              media      : MediaKinds,
              filename   : FileNames ] :
        (m.filename # << >>) => (m.media = "document") }

\* the items of an album are photos and documents; the settle task passes
\* them sorted by id
AlbumItems(ids) == { m \in SendMessages(ids) : m.media \in {"photo", "document"} }

Albums ==
    { << m >> : m \in AlbumItems({1}) }
        \cup { << m1, m2 >> : m1 \in AlbumItems({1}), m2 \in AlbumItems({2}) }

SendCalls ==
    { [ fn |-> "_send_to_target", message |-> m, messages |-> << >>, text |-> t,
        pc |-> "called", depth |-> 0, wake |-> 0, issued |-> << >>, answers |-> << >> ] :
        m \in SendMessages({1}), t \in Texts }
    \cup
    { [ fn |-> "_send_media_group", message |-> << >>, messages |-> ms, text |-> t,
        pc |-> "called", depth |-> 0, wake |-> 0, issued |-> << >>, answers |-> << >> ] :
        ms \in Albums, t \in Texts }

SendInit ==
    /\ config \in ConfigChoices
    /\ send \in SendCalls
    /\ probe = NoProbe
    /\ tray = NoTray
    /\ message_logger = NoLogger
    /\ startup = NoStartup
    /\ now = 0
    /\ media_groups = << >>
    /\ media_group_tasks = << >>
    /\ tasks = << >>
    /\ calls = << >>
    /\ arrivals = << >>
    /\ settled = << >>

\* whose send it is, as the client calls record it
SendBy(s) ==
    IF s.fn = "_send_to_target" THEN [kind |-> "msg", ref |-> s.message.id]
    ELSE [kind |-> "task", ref |-> 1]

\* an exception is raised before the method's first client call
RaisesBeforeCall(cfg, s) ==
    IF s.fn = "_send_to_target"
    THEN /\ s.message.media \notin {"none", "webpage"}
         /\ _should_skip_file(cfg, _get_document_filename(s.message)).exc # ""
    ELSE CollectFiles(cfg, s.messages).exc # ""

\* the method runs from its first line to its first suspension or its end
RunFromTop(cfg, s) ==
    LET issued == IF s.fn = "_send_to_target"
                  THEN _send_to_target(cfg, s.message, s.text, SendBy(s))
                  ELSE _send_media_group(cfg, s.messages, s.text, SendBy(s))
    IN  [ issued |-> issued,
          pc     |-> IF issued # << >> THEN "awaiting"
                     ELSE IF RaisesBeforeCall(cfg, s) THEN "failed"
                     ELSE "returned" ]

\* the answers of the client: a result ("ok"; "nothing" is download_media
\* returning None) or a raised exception
Answers(call) ==
    { [kind |-> k, seconds |-> 0] :
        k \in {"ok", "ChatWriteForbiddenError", "Exception"}
              \cup (IF call.op = "download_media" THEN {"nothing"} ELSE { }) }
    \cup { [kind |-> "FloodWaitError", seconds |-> d] : d \in 1..MaxWait }

\* faulty variant: every exception of the client is retried at once
OnException_RetriesAll(s, a) ==
    [issued |-> << >>, pc |-> "sleeping", wake |-> now + a.seconds * TicksPerSecond]

\* faulty variant: an error other than FloodWaitError is not caught
OnException_Propagates(s, a) ==
    IF a.kind = "FloodWaitError"
    THEN [issued |-> << >>, pc |-> "sleeping", wake |-> now + a.seconds * TicksPerSecond]
    ELSE [issued |-> << >>, pc |-> "escaped", wake |-> s.wake]

\* the except clauses: what the method does with an exception of the client
OnException(s, a) ==
    IF a.kind = "FloodWaitError"
    THEN [issued |-> << >>, pc |-> "sleeping", wake |-> now + a.seconds * TicksPerSecond]
    ELSE [issued |-> << >>, pc |-> "failed", wake |-> s.wake]

\* faulty variant: the file is sent whatever download_media returned
AfterDownload_SendsAnyway(s, a) ==
    [ issued |-> << ClientCall("send_file", << s.message.id >>, s.text, SendBy(s)) >>,
      pc     |-> "awaiting",
      wake   |-> s.wake ]

\* _send_media_message after download_media has returned
AfterDownload(s, a) ==
    LET issued == IF a.kind = "ok"
                  THEN << ClientCall("send_file", << s.message.id >>, s.text, SendBy(s)) >>
                  ELSE _send_text_message(s.text, SendBy(s))
    IN  [ issued |-> issued,
          pc     |-> IF issued # << >> THEN "awaiting" ELSE "returned",
          wake   |-> s.wake ]

\* faulty variant: after a media send the caption is sent once more as text
OnAnswer_TextAfterMedia(s, call, a) ==
    IF a.kind \notin {"ok", "nothing"} THEN OnException(s, a)
    ELSE IF call.op = "download_media" THEN AfterDownload(s, a)
    ELSE IF call.op = "send_file" /\ s.text # << >>
    THEN [issued |-> _send_text_message(s.text, SendBy(s)), pc |-> "awaiting", wake |-> s.wake]
    ELSE [issued |-> << >>, pc |-> "returned", wake |-> s.wake]

\* the method resumes with the client's answer to the call it awaits
OnAnswer(s, call, a) ==
    IF a.kind \notin {"ok", "nothing"} THEN OnException(s, a)
    ELSE IF call.op = "download_media" THEN AfterDownload(s, a)
    ELSE [issued |-> << >>, pc |-> "returned", wake |-> s.wake]

\* asyncio.sleep(e.seconds) has returned: may the method call itself again
MayRecurse(s) == s.depth < RecursionLimit

IssuedAt(n) == [i \in 1..n |-> now]

SendStart ==
    /\ send.pc = "called"
    /\ LET r == RunFromTop(config, send)
       IN  /\ calls' = calls \o r.issued
           /\ send' = [send EXCEPT !.pc = r.pc,
                                   !.issued = @ \o IssuedAt(Len(r.issued))]
    /\ UNCHANGED <<tray, message_logger, startup, probe, config, now, media_groups, media_group_tasks, tasks, arrivals, settled>>

ClientAnswers(a) ==
    /\ send.pc = "awaiting"
    /\ a \in Answers(calls[Len(calls)])
    /\ LET r == OnAnswer(send, calls[Len(calls)], a)
       IN  /\ calls' = calls \o r.issued
           /\ send' = [send EXCEPT !.pc = r.pc,
                                   !.wake = r.wake,
                                   !.answers = Append(@, [kind |-> a.kind, seconds |-> a.seconds, at |-> now]),
                                   !.issued = @ \o IssuedAt(Len(r.issued))]
    /\ UNCHANGED <<tray, message_logger, startup, probe, config, now, media_groups, media_group_tasks, tasks, arrivals, settled>>

\* the clock advances while the method sleeps
SendTick ==
    /\ send.pc = "sleeping"
    /\ now < send.wake
    /\ now' = now + 1
    /\ UNCHANGED <<tray, message_logger, startup, send, probe, config, media_groups, media_group_tasks, tasks, calls, arrivals, settled>>

\* the sleep returns and the method calls itself with the same arguments
SendRetry ==
    /\ send.pc = "sleeping"
    /\ now >= send.wake
    /\ MayRecurse(send)
    /\ LET r == RunFromTop(config, send)
       IN  /\ calls' = calls \o r.issued
           /\ send' = [send EXCEPT !.pc = r.pc,
                                   !.depth = @ + 1,
                                   !.issued = @ \o IssuedAt(Len(r.issued))]
    /\ UNCHANGED <<tray, message_logger, startup, probe, config, now, media_groups, media_group_tasks, tasks, arrivals, settled>>

\* the nested call exceeds the recursion limit: RecursionError is raised in
\* the handler of FloodWaitError, or in the try block of the nested call
\* where "except Exception" logs it
SendRecursionError ==
    /\ send.pc = "sleeping"
    /\ now >= send.wake
    /\ ~MayRecurse(send)
    /\ \E pc \in {"escaped", "failed"} : send' = [send EXCEPT !.pc = pc]
    /\ UNCHANGED <<tray, message_logger, startup, probe, config, now, media_groups, media_group_tasks, tasks, calls, arrivals, settled>>

SendNext ==
    \/ SendStart
    \/ \E k \in {"ok", "nothing", "ChatWriteForbiddenError", "Exception", "FloodWaitError"} :
        \E d \in 0..MaxWait : ClientAnswers([kind |-> k, seconds |-> d])
    \/ SendTick
    \/ SendRetry
    \/ SendRecursionError

SendSpec == SendInit /\ [][SendNext]_vars

(* ------------------------- start(), followed ---------------------------- *)
\* start() after the client has logged in: _resolve_target and then
\* _register_handlers.  startup.pc is
\*   "resolve_target"   suspended in get_entity(target_channel)
\*   "resolve_sources"  suspended in get_entity(channels[i])
\*   "running"          start() returned, the handler is registered
\*   "failed"           start() raised
\* startup.resolved is the history of get_entity calls: [channel, ok];
\* startup.events is the history of message events: [chat, handled].
SourceChannels == {"s1", "s2"}

\* the id of the entity a channel resolves to
EntityId(channel) == IF channel = "target" THEN 9 ELSE IF channel = "s1" THEN 1 ELSE 2

\* the chats message events come from: the two sources and another chat
EventChats == {1, 2, 3}

StartCalls ==
    { [ pc |-> "resolve_target", channels |-> cs, i |-> 0, target_entity |-> 0,
        source_ids |-> << >>, chats |-> { }, registered |-> FALSE,
        resolved |-> << >>, events |-> << >> ] :
        cs \in UNION { [1..n -> SourceChannels] : n \in 0..MaxSources } }

StartInit ==
    /\ config \in ConfigChoices
    /\ startup \in StartCalls
    /\ send = NoSend
    /\ probe = NoProbe
    /\ tray = NoTray
    /\ message_logger = NoLogger
    /\ now = 0
    /\ media_groups = << >>
    /\ media_group_tasks = << >>
    /\ tasks = << >>
    /\ calls = << >>
    /\ arrivals = << >>
    /\ settled = << >>

\* _register_handlers after its loop: raise, or register the handler
AfterSourceLoop(st) ==
    IF st.source_ids = << >>
    THEN [st EXCEPT !.pc = "failed"]
    ELSE [st EXCEPT !.pc = "running",
                    !.registered = TRUE,
                    !.chats = { st.source_ids[k] : k \in 1..Len(st.source_ids) }]

\* _register_handlers goes on to the next channel, or leaves the loop
NextSource(st) ==
    IF st.i < Len(st.channels)
    THEN [st EXCEPT !.pc = "resolve_sources", !.i = @ + 1]
    ELSE AfterSourceLoop([st EXCEPT !.i = @ + 1])

\* faulty variant: its failure ends start()
_resolve_source_Aborts(st, ok) ==
    LET st1 == [st EXCEPT !.resolved = Append(@, [channel |-> st.channels[st.i], ok |-> ok])]
    IN  IF ok
        THEN NextSource([st1 EXCEPT !.source_ids = Append(@, EntityId(st.channels[st.i]))])
        ELSE [st1 EXCEPT !.pc = "failed"]

\* one pass of the loop of _register_handlers, resumed from get_entity
_resolve_source(st, ok) ==
    LET st1 == [st EXCEPT !.resolved = Append(@, [channel |-> st.channels[st.i], ok |-> ok])]
    IN  IF ok
        THEN NextSource([st1 EXCEPT !.source_ids = Append(@, EntityId(st.channels[st.i]))])
        ELSE NextSource(st1)

\* _resolve_target resumed from get_entity, and start() up to its next suspension
_resolve_target(st, ok) ==
    LET st1 == [st EXCEPT !.resolved = Append(@, [channel |-> "target", ok |-> ok])]
    IN  IF ok
        THEN NextSource([st1 EXCEPT !.target_entity = EntityId("target")])
        ELSE [st1 EXCEPT !.pc = "failed"]

\* events.NewMessage(chats=source_ids): the client calls the handler for an
\* event of chat c when a handler is registered and c is one of its chats
Dispatched(st, c) == st.registered /\ c \in st.chats

ResolveTarget(ok) ==
    /\ startup.pc = "resolve_target"
    /\ startup' = _resolve_target(startup, ok)
    /\ UNCHANGED <<tray, message_logger, send, probe, config, now, media_groups, media_group_tasks, tasks, calls, arrivals, settled>>

ResolveSource(ok) ==
    /\ startup.pc = "resolve_sources"
    /\ startup' = _resolve_source(startup, ok)
    /\ UNCHANGED <<tray, message_logger, send, probe, config, now, media_groups, media_group_tasks, tasks, calls, arrivals, settled>>

NewMessageEvent(c) ==
    /\ startup.pc # "none"
    /\ Len(startup.events) < MaxEvents
    /\ startup' = [startup EXCEPT !.events = Append(@, [chat |-> c, handled |-> Dispatched(startup, c)])]
    /\ UNCHANGED <<tray, message_logger, send, probe, config, now, media_groups, media_group_tasks, tasks, calls, arrivals, settled>>

StartNext ==
    \/ \E ok \in BOOLEAN : ResolveTarget(ok)
    \/ \E ok \in BOOLEAN : ResolveSource(ok)
    \/ \E c \in EventChats : NewMessageEvent(c)

StartSpec == StartInit /\ [][StartNext]_vars

(* ----------------------- the message logger's threads ----------------------
   installer/message_logger.py.  Three threads touch one MessageLogger: the
   event loop runs _handle_message, the worker thread runs _worker_loop, and
   the caller of stop() runs stop.  Every access to the shared queue is one
   step.  Records are numbered in the order their events are handled; the
   shutdown signal None is written NoneSignal.                               *)

NoneSignal == 0

Nothing == 0 - 1

OtherVars == <<tray, startup, send, probe, config, now, media_groups, media_group_tasks, tasks, calls, arrivals, settled>>

\* queue.Queue(maxsize=max_queue_size): full() of the queue
QueueFull(q) == Len(q) >= MaxQueueSize

\* MessageLogger(...), before start()
LoggerInit ==
    /\ message_logger = NoLogger
    /\ startup = NoStartup
    /\ send = NoSend
    /\ probe = NoProbe
    /\ tray = NoTray
    /\ config \in ConfigChoices
    /\ now = 0
    /\ media_groups = << >>
    /\ media_group_tasks = << >>
    /\ tasks = << >>
    /\ calls = << >>
    /\ arrivals = << >>
    /\ settled = << >>

\* start(): sets _running, registers the two handlers, starts the worker thread
LoggerStart ==
    /\ ~message_logger.running
    /\ message_logger.stopper = "idle"
    /\ message_logger.worker.pc = "none"
    /\ message_logger' = [message_logger EXCEPT !.running = TRUE, !.registered = TRUE,
                                                !.worker.pc = "top"]
    /\ UNCHANGED OtherVars

\* one handled event, as the claims read it
HandledEvent(h, full, enqueued) ==
    [record |-> h.record, full |-> full, oldest |-> h.oldest, discarded |-> h.discarded,
     enqueued |-> enqueued, raced |-> h.raced]

\* _handle_message up to the first put_nowait(record)
HandlePut ==
    /\ message_logger.registered
    /\ message_logger.handler.pc = "idle"
    /\ message_logger.next_record <= MaxRecords
    /\ LET r == message_logger.next_record
           q == message_logger.queue
           h == [pc |-> "idle", record |-> r, oldest |-> Nothing, discarded |-> Nothing, raced |-> FALSE]
       IN  IF ~QueueFull(q)
           THEN message_logger' = [message_logger EXCEPT
                    !.queue = Append(q, r), !.next_record = r + 1, !.handler = h,
                    !.events = Append(@, HandledEvent(h, FALSE, TRUE))]
           ELSE message_logger' = [message_logger EXCEPT
                    !.next_record = r + 1,
                    !.handler = [h EXCEPT !.pc = "full", !.oldest = Head(q)]]
    /\ UNCHANGED OtherVars

\* except queue.Full: get_nowait(), which raises queue.Empty on an empty queue
HandleGetNowait ==
    /\ message_logger.handler.pc = "full"
    /\ LET q == message_logger.queue
           h == message_logger.handler
       IN  IF q = << >>
           THEN message_logger' = [message_logger EXCEPT
                    !.handler.pc = "idle",
                    !.events = Append(@, HandledEvent(h, TRUE, FALSE))]
           ELSE message_logger' = [message_logger EXCEPT
                    !.queue = Tail(q),
                    !.handler = [h EXCEPT !.pc = "got", !.discarded = Head(q)]]
    /\ UNCHANGED OtherVars

\* the put_nowait(record) after get_nowait(): a queue.Full here is not a
\* queue.Empty, it reaches the outer except Exception, which logs it
SecondPut(q) == ~QueueFull(q)

HandlePutAgain ==
    /\ message_logger.handler.pc = "got"
    /\ LET q == message_logger.queue
           h == message_logger.handler
       IN  IF SecondPut(q)
           THEN message_logger' = [message_logger EXCEPT
                    !.queue = Append(q, h.record), !.handler.pc = "idle",
                    !.events = Append(@, HandledEvent(h, TRUE, TRUE))]
           ELSE message_logger' = [message_logger EXCEPT
                    !.handler.pc = "idle",
                    !.events = Append(@, HandledEvent(h, TRUE, FALSE))]
    /\ UNCHANGED OtherVars

\* stop(): returns at once unless _running; clears _running
StopBegin ==
    /\ message_logger.stopper = "idle"
    /\ message_logger.running
    /\ message_logger' = [message_logger EXCEPT !.running = FALSE, !.stopper = "put"]
    /\ UNCHANGED OtherVars

\* stop(): put(None, timeout=1.0) enqueues as soon as there is room
StopPut ==
    /\ message_logger.stopper = "put"
    /\ ~QueueFull(message_logger.queue)
    /\ message_logger' = [message_logger EXCEPT
            !.queue = Append(@, NoneSignal), !.stopper = "join",
            !.handler.raced = (@ \/ message_logger.handler.pc # "idle")]
    /\ UNCHANGED OtherVars

\* stop(): the put times out on a queue that stayed full; queue.Full is passed over
StopPutTimeout ==
    /\ message_logger.stopper = "put"
    /\ QueueFull(message_logger.queue)
    /\ message_logger' = [message_logger EXCEPT !.stopper = "join"]
    /\ UNCHANGED OtherVars

\* stop(): join(timeout) returns, with the worker stopped or not; handlers removed
StopJoin ==
    /\ message_logger.stopper = "join"
    /\ message_logger' = [message_logger EXCEPT !.stopper = "done", !.registered = FALSE]
    /\ UNCHANGED OtherVars

\* what the database does to one INSERT
InsertOutcomes == {"ok", "failed", "lost"}

\* _insert_record: [ok, connection] for the connection before and the outcome
_insert_record(connection, outcome) ==
    IF ~connection THEN [ok |-> FALSE, connection |-> FALSE]
    ELSE IF outcome = "ok" THEN [ok |-> TRUE, connection |-> TRUE]
    ELSE [ok |-> FALSE, connection |-> (outcome = "failed")]

\* where the loop goes once it is connected: the retry pass when retry_queue
\* holds something, else the get
AfterConnect(w) ==
    IF w.retry_queue # << >>
    THEN [w EXCEPT !.pc = "retry", !.i = 1, !.still_failed = << >>]
    ELSE [w EXCEPT !.pc = "get"]

\* the while condition and the connection test
WorkerTop ==
    /\ message_logger.worker.pc = "top"
    /\ LET w == message_logger.worker
       IN  IF ~(message_logger.running \/ message_logger.queue # << >> \/ w.retry_queue # << >>)
           THEN message_logger' = [message_logger EXCEPT !.worker.pc = "stopped", !.connection = FALSE]
           ELSE IF ~message_logger.connection
           THEN message_logger' = [message_logger EXCEPT !.worker.pc = "connect"]
           ELSE message_logger' = [message_logger EXCEPT !.worker = AfterConnect(w)]
    /\ UNCHANGED OtherVars

\* _connect_db() and _ensure_table_exists(); a failure sleeps and continues
WorkerConnect(db_ok, table_ok) ==
    /\ message_logger.worker.pc = "connect"
    /\ IF db_ok /\ table_ok
       THEN message_logger' = [message_logger EXCEPT
                !.connection = TRUE, !.worker = AfterConnect(message_logger.worker)]
       ELSE message_logger' = [message_logger EXCEPT
                !.connection = FALSE, !.worker.pc = "top"]
    /\ UNCHANGED OtherVars

\* after the retry pass: records still failing make the loop sleep and continue
AfterRetryPass_GoesOn(still_failed) == "get"

AfterRetryPass(still_failed) == IF still_failed # << >> THEN "top" ELSE "get"

\* one insert of the retry pass
WorkerRetry(outcome) ==
    /\ message_logger.worker.pc = "retry"
    /\ LET w == message_logger.worker
           record == w.retry_queue[w.i]
           r == _insert_record(message_logger.connection, outcome)
           still_failed == IF r.ok THEN w.still_failed ELSE Append(w.still_failed, record)
           inserted == IF r.ok THEN Append(message_logger.inserted, record) ELSE message_logger.inserted
       IN  IF w.i < Len(w.retry_queue)
           THEN message_logger' = [message_logger EXCEPT
                    !.connection = r.connection, !.inserted = inserted,
                    !.worker = [w EXCEPT !.i = w.i + 1, !.still_failed = still_failed]]
           ELSE message_logger' = [message_logger EXCEPT
                    !.connection = r.connection, !.inserted = inserted,
                    !.worker = [w EXCEPT !.pc = AfterRetryPass(still_failed), !.i = 0,
                                         !.retry_queue = still_failed, !.still_failed = << >>]]
    /\ UNCHANGED OtherVars

\* get(timeout=1.0): a record, the shutdown signal, or queue.Empty
WorkerGet ==
    /\ message_logger.worker.pc = "get"
    /\ LET q == message_logger.queue
       IN  IF q = << >>
           THEN message_logger' = [message_logger EXCEPT !.worker.pc = "top"]
           ELSE IF Head(q) = NoneSignal
           THEN message_logger' = [message_logger EXCEPT
                    !.queue = Tail(q), !.worker.pc = "stopped", !.connection = FALSE,
                    !.handler.raced = (@ \/ message_logger.handler.pc # "idle")]
           ELSE message_logger' = [message_logger EXCEPT
                    !.queue = Tail(q), !.dequeued = Append(@, Head(q)),
                    !.worker.pc = "insert", !.worker.record = Head(q),
                    !.handler.raced = (@ \/ message_logger.handler.pc # "idle")]
    /\ UNCHANGED OtherVars

\* the insert of the record just taken; a failure appends it to retry_queue
WorkerInsert(outcome) ==
    /\ message_logger.worker.pc = "insert"
    /\ LET w == message_logger.worker
           r == _insert_record(message_logger.connection, outcome)
       IN  message_logger' = [message_logger EXCEPT
                !.connection = r.connection,
                !.inserted = IF r.ok THEN Append(@, w.record) ELSE @,
                !.failed = IF r.ok THEN @ ELSE Append(@, w.record),
                !.worker = [w EXCEPT !.pc = "top", !.record = 0,
                                     !.retry_queue = IF r.ok THEN @ ELSE Append(@, w.record)]]
    /\ UNCHANGED OtherVars

LoggerNext ==
    \/ LoggerStart
    \/ HandlePut
    \/ HandleGetNowait
    \/ HandlePutAgain
    \/ StopBegin
    \/ StopPut
    \/ StopPutTimeout
    \/ StopJoin
    \/ WorkerTop
    \/ \E db_ok \in BOOLEAN, table_ok \in BOOLEAN : WorkerConnect(db_ok, table_ok)
    \/ \E outcome \in InsertOutcomes : WorkerRetry(outcome)
    \/ WorkerGet
    \/ \E outcome \in InsertOutcomes : WorkerInsert(outcome)

LoggerSpec == LoggerInit /\ [][LoggerNext]_vars

(* ----------------------- the tray application's threads --------------------
   installer/tray_app.py.  The menu callbacks run one at a time on the icon's
   thread; every _on_start that goes through starts a thread running
   _start_duplicator and every _on_stop that goes through starts a thread
   running _stop_duplicator.  Threads are numbered in the order they were
   started; the event loop and the duplicator a start thread creates carry
   the thread's number, 0 is None.  A step of a background thread runs from
   one access of self.state, self.duplicator or self.event_loop to the next. *)

IconState == {"STOPPED", "CONNECTING", "RUNNING"}

TrayOthers == <<message_logger, startup, send, probe, config, now, media_groups, media_group_tasks, tasks, calls, arrivals, settled>>

\* TrayApp()
TrayInit ==
    /\ tray = NoTray
    /\ message_logger = NoLogger
    /\ startup = NoStartup
    /\ send = NoSend
    /\ probe = NoProbe
    /\ config \in ConfigChoices
    /\ now = 0
    /\ media_groups = << >>
    /\ media_group_tasks = << >>
    /\ tasks = << >>
    /\ calls = << >>
    /\ arrivals = << >>
    /\ settled = << >>

\* the start threads that have not returned from _start_duplicator
ActiveStarts(t) == { k \in 1..Len(t.starts) : t.starts[k] # "done" }

\* _on_start: nothing unless STOPPED; nothing but the wizard when the
\* configuration is missing; else CONNECTING and a new start thread
_on_start_Passes(t, config_ok) == t.state = "STOPPED" /\ config_ok

_on_start(t, config_ok) ==
    IF _on_start_Passes(t, config_ok)
    THEN [t EXCEPT !.state = "CONNECTING", !.starts = Append(@, "begin"), !.user = "start"]
    ELSE t

\* _on_stop: nothing when STOPPED; else STOPPED and a new stop thread
_on_stop(t) ==
    IF t.state = "STOPPED"
    THEN t
    ELSE [t EXCEPT !.state = "STOPPED", !.stops = Append(@, "begin"), !.user = "stop"]

\* _on_double_click: start when STOPPED, stop otherwise
_on_double_click(t, config_ok) ==
    IF t.state = "STOPPED" THEN _on_start(t, config_ok) ELSE _on_stop(t)

\* a callback may start a thread only while the bounds leave room for it
WithinThreadBounds(t) ==
    /\ Len(t.starts) <= MaxStartThreads
    /\ Len(t.stops) <= MaxStopThreads

OnStart(config_ok) ==
    /\ tray' = _on_start(tray, config_ok)
    /\ WithinThreadBounds(tray')
    /\ UNCHANGED TrayOthers

OnStop ==
    /\ tray' = _on_stop(tray)
    /\ WithinThreadBounds(tray')
    /\ UNCHANGED TrayOthers

OnDoubleClick(config_ok) ==
    /\ tray' = _on_double_click(tray, config_ok)
    /\ WithinThreadBounds(tray')
    /\ UNCHANGED TrayOthers

\* _cleanup: forgets the duplicator, stops and forgets the event loop
_cleanup(t) ==
    [t EXCEPT !.duplicator = 0, !.event_loop = 0,
              !.halted = IF t.event_loop # 0 THEN @ \cup {t.event_loop} ELSE @]

\* _start_duplicator l.405-425: imports, a new event loop, Config() and the
\* duplicator; an exception sets STOPPED and returns
StartCreate(T, ok) ==
    /\ T \in 1..Len(tray.starts)
    /\ tray.starts[T] = "begin"
    /\ IF ok
       THEN tray' = [tray EXCEPT !.event_loop = T, !.duplicator = T, !.starts[T] = "connecting"]
       ELSE tray' = [tray EXCEPT !.state = "STOPPED", !.starts[T] = "done"]
    /\ UNCHANGED TrayOthers

\* the startup can complete only on a loop that exists and was not stopped
\* and with a duplicator that exists and was not disconnected
MayConnect(t, T) == t.event_loop # 0 /\ t.duplicator # 0 /\ T \notin t.halted

\* _async_start l.471: the state the startup ends in
StateAfterStartup(t) == "RUNNING"

\* l.428 with _async_start: the startup completes and sets the state, or
\* raises, which sets STOPPED and returns
StartConnect(T, ok) ==
    /\ T \in 1..Len(tray.starts)
    /\ tray.starts[T] = "connecting"
    /\ ok => MayConnect(tray, T)
    /\ IF ok
       THEN tray' = [tray EXCEPT !.state = StateAfterStartup(tray), !.starts[T] = "started"]
       ELSE tray' = [tray EXCEPT !.state = "STOPPED", !.starts[T] = "done"]
    /\ UNCHANGED TrayOthers

\* l.438-447: run_until_disconnected ends, by a disconnect of any origin;
\* finally: STOPPED
StartRunEnds(T) ==
    /\ T \in 1..Len(tray.starts)
    /\ tray.starts[T] = "started"
    /\ tray' = [tray EXCEPT !.state = "STOPPED", !.starts[T] = "finishing"]
    /\ UNCHANGED TrayOthers

\* l.448-449: finally: _cleanup
StartCleanup(T) ==
    /\ T \in 1..Len(tray.starts)
    /\ tray.starts[T] = "finishing"
    /\ tray' = [_cleanup(tray) EXCEPT !.starts[T] = "done"]
    /\ UNCHANGED TrayOthers

\* _stop_duplicator l.491-503: with a duplicator and a loop, duplicator.stop()
\* is run on the loop and waited for; the wait may time out, which skips the
\* cleanup
StopDisconnect(S, in_time) ==
    /\ S \in 1..Len(tray.stops)
    /\ tray.stops[S] = "begin"
    /\ IF tray.duplicator # 0 /\ tray.event_loop # 0
       THEN tray' = [tray EXCEPT !.halted = @ \cup {tray.event_loop},
                                 !.stops[S] = IF in_time THEN "cleanup" ELSE "done"]
       ELSE tray' = [tray EXCEPT !.stops[S] = "cleanup"]
    /\ UNCHANGED TrayOthers

\* _stop_duplicator l.505-507
StopCleanup(S) ==
    /\ S \in 1..Len(tray.stops)
    /\ tray.stops[S] = "cleanup"
    /\ tray' = [_cleanup(tray) EXCEPT !.stops[S] = "done"]
    /\ UNCHANGED TrayOthers

TrayNext ==
    \/ \E config_ok \in BOOLEAN : OnStart(config_ok)
    \/ OnStop
    \/ \E config_ok \in BOOLEAN : OnDoubleClick(config_ok)
    \/ \E T \in 1..MaxStartThreads, ok \in BOOLEAN : StartCreate(T, ok)
    \/ \E T \in 1..MaxStartThreads, ok \in BOOLEAN : StartConnect(T, ok)
    \/ \E T \in 1..MaxStartThreads : StartRunEnds(T)
    \/ \E T \in 1..MaxStartThreads : StartCleanup(T)
    \/ \E S \in 1..MaxStopThreads, in_time \in BOOLEAN : StopDisconnect(S, in_time)
    \/ \E S \in 1..MaxStopThreads : StopCleanup(S)

TraySpec == TrayInit /\ [][TrayNext]_vars

(* ----------------------- history, read by the claims ------------------- *)
ArrivalTime(id) ==
    LET i == CHOOSE k \in 1..Len(arrivals) : arrivals[k].msg.id = id IN arrivals[i].at

Ids(messages) == { messages[k].id : k \in 1..Len(messages) }

GroupSettles(g) == SelectSeq(settled, LAMBDA s : s.gid = g)

InSettledBatch(id) == \E i \in 1..Len(settled) : id \in Ids(settled[i].batch)

TasksOf(g) == { t \in 1..Len(tasks) : tasks[t].gid = g }

CallsBy(kind, ref) ==
    { k \in 1..Len(calls) : calls[k].by.kind = kind /\ calls[k].by.ref = ref }

(* ------------------------------- claims -------------------------------- *)

\* C1: a batch is handed to group processing no earlier than
\* MEDIA_GROUP_WAIT_TIME after the most recent arrival carrying its
\* grouped_id, and the one pending timer of a group has a deadline no
\* earlier than last-arrival + MEDIA_GROUP_WAIT_TIME (every arrival restarts
\* the full wait).
C1_SettleAfterLastArrival ==
    /\ \A i \in 1..Len(settled) :
         /\ settled[i].at >= settled[i].last_arrival + MEDIA_GROUP_WAIT_TIME
         /\ \A id \in Ids(settled[i].batch) :
              settled[i].at >= ArrivalTime(id) + MEDIA_GROUP_WAIT_TIME
    /\ \A t \in 1..Len(tasks) :
         (Live(t) /\ tasks[t].pc \in {"sleeping", "ready"})
            => tasks[t].deadline >= LastArrival(tasks[t].gid) + MEDIA_GROUP_WAIT_TIME

\* a batch of two messages that arrived at different times has settled
C1_Witness ==
    \E i \in 1..Len(settled) :
        \E a, b \in Ids(settled[i].batch) :
            /\ ArrivalTime(a) < ArrivalTime(b)
            /\ settled[i].at >= ArrivalTime(b) + MEDIA_GROUP_WAIT_TIME

\* C2: while every gap between consecutive arrivals of a grouped_id is
\* shorter than MEDIA_GROUP_WAIT_TIME, the group settles at most once; once
\* its buffer has left the store it has settled exactly once, no earlier than
\* last arrival + MEDIA_GROUP_WAIT_TIME, with every message of the burst in
\* the batch.
C2_BurstSettlesOnce ==
    \A g \in 1..MaxGroup :
        LET ga == GroupArrivals(g)
            gs == GroupSettles(g)
        IN  (/\ ga # << >>
             /\ \A i \in 1..(Len(ga) - 1) : ga[i + 1].at - ga[i].at < MEDIA_GROUP_WAIT_TIME)
            => /\ Len(gs) <= 1
               /\ (g \notin DOMAIN media_groups) => Len(gs) = 1
               /\ \A i \in 1..Len(gs) :
                    /\ gs[i].at >= ga[Len(ga)].at + MEDIA_GROUP_WAIT_TIME
                    /\ Ids(gs[i].batch) = { ga[k].msg.id : k \in 1..Len(ga) }
                    /\ Len(gs[i].batch) = Len(ga)

\* a burst of three arrivals at three different times has settled, once
C2_Witness ==
    \E g \in 1..MaxGroup :
        LET ga == GroupArrivals(g)
        IN  /\ Len(ga) = 3
            /\ ga[1].at < ga[2].at /\ ga[2].at < ga[3].at
            /\ ga[2].at - ga[1].at < MEDIA_GROUP_WAIT_TIME
            /\ ga[3].at - ga[2].at < MEDIA_GROUP_WAIT_TIME
            /\ Len(GroupSettles(g)) = 1
            /\ Len(GroupSettles(g)[1].batch) = 3

\* C3: for every grouped_id at most one settle timer is live (scheduled,
\* not cancelled, its settle not yet run).
C3_OneLiveTimer ==
    \A g \in 1..MaxGroup : Cardinality({ t \in TasksOf(g) : Live(t) }) <= 1

\* a later arrival has cancelled a group's timer and scheduled the next one
C3_Witness ==
    \E g \in 1..MaxGroup :
        /\ \E t \in TasksOf(g) : tasks[t].must_cancel \/ tasks[t].pc = "cancelled"
        /\ \E t \in TasksOf(g) : Live(t) /\ tasks[t].pc = "sleeping"

\* C4: no received message is in two settled batches, and no message that
\* is still buffered in the store has been handed to group processing.
C4_ProcessedAtMostOnce ==
    /\ \A i, j \in 1..Len(settled) :
         i # j => Ids(settled[i].batch) \cap Ids(settled[j].batch) = {}
    /\ \A g \in DOMAIN media_groups :
         \A id \in Ids(media_groups[g]) : ~InSettledBatch(id)

\* the same grouped_id has settled twice
C4_Witness ==
    \E i, j \in 1..Len(settled) :
        /\ i < j
        /\ settled[i].gid = settled[j].gid
        /\ settled[j].batch # << >>

\* C5: under FairSpec every grouped message that was buffered is eventually
\* in a batch handed to group processing.
C5_BufferedEventuallySettles ==
    \A id \in 1..MaxMsgId :
        (\E i \in 1..Len(arrivals) :
            arrivals[i].msg.id = id /\ arrivals[i].result = "buffered")
        ~> InSettledBatch(id)

\* a group whose timer was restarted by a later arrival has settled and
\* left nothing in the stores
C5_Witness ==
    /\ DOMAIN media_groups = {}
    /\ DOMAIN media_group_tasks = {}
    /\ \E i \in 1..Len(settled) :
         /\ Len(settled[i].batch) >= 2
         /\ \E t \in TasksOf(settled[i].gid) : tasks[t].pc = "cancelled"

C7_BatchSortedById ==
    \A i \in 1..Len(settled) :
        LET b == settled[i].batch
            r == settled[i].buffered
        IN  /\ \A k \in 1..(Len(b) - 1) : b[k].id < b[k + 1].id
            /\ Len(b) = Len(r)
            /\ { b[k] : k \in 1..Len(b) } = { r[k] : k \in 1..Len(r) }

\* a buffer whose messages arrived in descending id order has settled
C7_Witness ==
    \E i \in 1..Len(settled) :
        LET r == settled[i].buffered
        IN  /\ Len(r) >= 2
            /\ r[1].id > r[2].id
            /\ settled[i].batch[1].id < settled[i].batch[2].id

\* the message of a batch that the claim names as representative
Representative(batch) ==
    LET withText == { id \in Ids(batch) :
                        \E k \in 1..Len(batch) : batch[k].id = id /\ batch[k].text # << >> }
        pool     == IF withText # {} THEN withText ELSE Ids(batch)
        least    == CHOOSE id \in pool : \A other \in pool : id <= other
    IN  CHOOSE k \in 1..Len(batch) : batch[k].id = least

C9_DroppedAlbumSendsNothing ==
    \A i \in 1..Len(settled) :
        (settled[i].decision.exc = "" /\ ~settled[i].decision.should_copy)
            => /\ CallsBy("task", settled[i].task) = {}
               /\ tasks[settled[i].task].pc = "returned"

\* an album of two items has been dropped on its forwarded representative
C9_Witness ==
    \E i \in 1..Len(settled) :
        /\ settled[i].decision.exc = "" /\ ~settled[i].decision.should_copy
        /\ settled[i].result = "dropped"
        /\ Len(settled[i].batch) >= 2
        /\ \E k \in 1..Len(settled[i].batch) :
             /\ settled[i].batch[k].id = settled[i].filter_msg
             /\ settled[i].batch[k].fwd_from
             /\ settled[i].batch[k].text # << >>

\* C10: handling a non-grouped message that the filter drops issues no
\* client call and changes neither the buffer store, the task registry nor
\* any task.
C10_DroppedSingleHasNoEffect ==
    [][ \A m \in InboundMessages :
          ( /\ HandleMessage(m)
            /\ m.grouped_id = 0
            /\ should_copy(config, m).exc = ""
            /\ ~should_copy(config, m).should_copy )
          => /\ calls' = calls
             /\ media_groups' = media_groups
             /\ media_group_tasks' = media_group_tasks
             /\ tasks' = tasks
             /\ arrivals'[Len(arrivals')].result = "dropped"
      ]_vars

\* a forwarded non-grouped message with text was dropped while an album was
\* being collected
C10_Witness ==
    /\ DOMAIN media_groups # {}
    /\ \E i \in 1..Len(arrivals) :
         /\ arrivals[i].msg.grouped_id = 0
         /\ arrivals[i].msg.text # << >>
         /\ arrivals[i].result = "dropped"
         /\ \E j \in 1..(i - 1) : arrivals[j].result = "buffered"

\* C11: handling a message that carries a grouped_id appends it to the
\* buffer of its album, cancels the pending settle task and schedules a new
\* one, and the handler has then returned: the step issues no client call,
\* hands no batch to group processing and runs no task.  A batch is handed to
\* group processing, and a client call for it is issued, only by the step of
\* a settle task whose sleep has ended.
C11_GroupedHandlerOnlyBuffers ==
    [][ /\ \A m \in InboundMessages :
             (HandleMessage(m) /\ m.grouped_id # 0)
             => /\ media_groups' = DictSet(media_groups, m.grouped_id,
                                       Append(GroupList(media_groups, m.grouped_id), m))
                /\ Len(tasks') = Len(tasks) + 1
                /\ tasks'[Len(tasks')] = NewTask(m.grouped_id)
                /\ media_group_tasks' = DictSet(media_group_tasks, m.grouped_id, Len(tasks'))
                /\ \A t \in 1..Len(tasks) :
                     /\ tasks'[t].pc = tasks[t].pc
                     /\ (Live(t) /\ tasks[t].gid = m.grouped_id) => tasks'[t].must_cancel
                /\ arrivals' = Append(arrivals, [msg |-> m, at |-> now, result |-> "buffered"])
                /\ calls' = calls
                /\ settled' = settled
        /\ (settled' # settled \/ \E k \in 1..Len(calls') : calls'[k].by.kind = "task" /\ k > Len(calls))
             => \E t \in 1..Len(tasks) :
                  /\ tasks[t].pc = "ready"
                  /\ now >= tasks[t].deadline
                  /\ tasks'[t].pc \notin {"created", "sleeping", "ready"}
                  /\ arrivals' = arrivals
        /\ \A k \in 1..Len(calls') :
             calls'[k].by.kind = "msg"
                => \A i \in 1..Len(arrivals') :
                     arrivals'[i].msg.id = calls'[k].by.ref => arrivals'[i].msg.grouped_id = 0
      ]_vars

\* the second item of an album with text, not forwarded, has been buffered:
\* the first item's task is cancelled, a new one is scheduled, nothing is sent
C11_Witness ==
    /\ calls = << >>
    /\ settled = << >>
    /\ \E g \in DOMAIN media_groups :
         /\ Len(media_groups[g]) = 2
         /\ media_groups[g][2].text # << >>
         /\ ~media_groups[g][2].fwd_from
         /\ arrivals[Len(arrivals)].msg = media_groups[g][2]
         /\ arrivals[Len(arrivals)].result = "buffered"
         /\ tasks[media_group_tasks[g]].pc = "created"
         /\ \E t \in TasksOf(g) : t # media_group_tasks[g] /\ tasks[t].must_cancel

(* ---------------------- claims about the filter ------------------------ *)
\* the decision the five checks give when each is read as the claims state
\* it: 0 for a pass, otherwise the number of the first check that fails
FirstFailingCheck(cfg, m) ==
    LET text == m.text
    IN  IF cfg.ignore_forwarded /\ m.fwd_from THEN 1
        ELSE IF /\ cfg.require_keywords # << >>
                /\ ~\E i \in 1..Len(cfg.require_keywords) : Contains(cfg.require_keywords[i], text)
        THEN 2
        ELSE IF \E i \in 1..Len(cfg.negative_keywords) :
                   Contains(Lower(cfg.negative_keywords[i]), Lower(text))
        THEN 3
        ELSE IF \E i \in 1..Len(cfg.negative_patterns) :
                   /\ re_compile(cfg.negative_patterns[i]).exc = ""
                   /\ PatternSearch(cfg.negative_patterns[i], text)
        THEN 4
        ELSE IF \/ cfg.min_length > 0 /\ Len(text) < cfg.min_length
                \/ cfg.max_length > 0 /\ Len(text) > cfg.max_length
        THEN 5
        ELSE 0

\* the phrase that opens the reason of each check's drop
ReasonPhrase(n) ==
    IF n = 1 THEN "Message is forwarded"
    ELSE IF n = 2 THEN "Missing required keyword"
    ELSE IF n = 3 THEN "Matched negative keyword: '"
    ELSE IF n = 4 THEN "Matched negative pattern: '"
    ELSE "Message length ("

\* C13: should_copy returns the decision of the first failing check in the
\* order forwarded, required keyword, negative keyword, negative pattern,
\* length, with that check's reason, and a pass when no check fails; with
\* ignore_forwarded set a forwarded message is dropped as forwarded whatever
\* its text and the other rules.
C13_FirstFailingCheckDecides ==
    probe.fn = "should_copy"
        => LET n == FirstFailingCheck(config, probe.arg)
           IN  /\ probe.out.exc = ""
               /\ probe.out.should_copy = (n = 0)
               /\ n # 0 => /\ probe.out.reason # << >>
                           /\ probe.out.reason[1] = ReasonPhrase(n)

\* the part of C13 about forwarded messages, which the code keeps
C13_ForwardedAlwaysDropped ==
    (probe.fn = "should_copy" /\ config.ignore_forwarded /\ probe.arg.fwd_from)
        => /\ probe.out.exc = ""
           /\ ~probe.out.should_copy
           /\ probe.out.reason = <<"Message is forwarded">>

\* should_copy was called on a message that is not forwarded and carries a
\* configured negative keyword, and raised
C13_Witness ==
    /\ probe.fn = "should_copy"
    /\ ~probe.arg.fwd_from
    /\ probe.arg.text = <<"b">>
    /\ config.negative_keywords = << <<"b">> >>
    /\ config.require_keywords = << >>
    /\ probe.out.exc = "AttributeError"

C15_RequiredKeywordCheck ==
    LET required == config.require_keywords
        passes(text) == \/ required = << >>
                        \/ \E i \in 1..Len(required) : Contains(required[i], text)
    IN  /\ probe.fn = "matches_required_keyword"
            => /\ probe.out.exc = ""
               /\ probe.out.val = passes(probe.arg)
        /\ ( /\ probe.fn = "should_copy"
             /\ ~(config.ignore_forwarded /\ probe.arg.fwd_from)
             /\ ~passes(probe.arg.text) )
            => /\ probe.out.exc = ""
               /\ ~probe.out.should_copy
               /\ probe.out.reason = <<"Missing required keyword">>

\* matches_required_keyword was called with a required keyword that the text
\* contains, and raised
C15_Witness ==
    /\ probe.fn = "matches_required_keyword"
    /\ config.require_keywords = << <<"b">> >>
    /\ probe.arg = <<"a", "b">>
    /\ probe.out.exc = "AttributeError"

\* C16: the negative-keyword step drops the message exactly when some entry
\* of negative_keywords is a substring of the text with letter case ignored,
\* for every text and list, the empty text and the entry "" included, and
\* the reason of the drop quotes an entry that occurs.
C16_NegativeKeywordCheck ==
    probe.fn = "negative_keyword_check"
        => LET kws == config.negative_keywords
               occ == { i \in 1..Len(kws) : Contains(Lower(kws[i]), Lower(probe.arg)) }
           IN  /\ probe.out.dropped <=> (occ # {})
               /\ probe.out.dropped
                    => \E i \in occ :
                         probe.out.reason = <<"Matched negative keyword: '">> \o kws[i] \o <<"'">>

\* the text "b" under the keywords "", "b": the first keyword is returned,
\* it is the empty string, and the message is not dropped
C16_Witness ==
    /\ probe.fn = "negative_keyword_check"
    /\ config.negative_keywords = << << >>, <<"b">> >>
    /\ probe.arg = <<"b">>
    /\ probe.out.matched = 1
    /\ ~probe.out.dropped

\* C17: with L the length of the text, check_length refuses it exactly when
\* (min_length > 0 and L < min_length) or (max_length > 0 and
\* L > max_length); a limit of 0 refuses nothing.
C17_LengthCheckDrops ==
    probe.fn = "check_length"
        => LET L == Len(probe.arg)
           IN  /\ (~probe.out) <=> \/ config.min_length > 0 /\ L < config.min_length
                                   \/ config.max_length > 0 /\ L > config.max_length
               /\ (config.min_length = 0 /\ config.max_length = 0) => probe.out

\* a text of length max_length was accepted under a minimum below it
C17_Witness ==
    /\ probe.fn = "check_length"
    /\ config.max_length = 2
    /\ config.min_length = 1
    /\ Len(probe.arg) = 2
    /\ probe.out

(* -------------------- claims about the transformer --------------------- *)
\* the configured rules that TextTransformer keeps: those with a pattern
\* that compiles
KeptRules(cfg) ==
    SelectSeq(cfg.replacements,
              LAMBDA r : r.pattern # << >> /\ \A i \in 1..Len(r.pattern) : r.pattern[i] # "(")

\* a replacement string with its placeholders filled in, as C20 states it
RECURSIVE Filled(_, _)
Filled(cfg, text) ==
    IF text = << >> THEN << >>
    ELSE (IF Head(text) = "{{my_channel_name}}" THEN cfg.my_channel_name
          ELSE IF Head(text) = "{{my_username}}" THEN cfg.my_username
          ELSE IF Head(text) = "{{my_contact_username}}" THEN cfg.my_contact_username
          ELSE << Head(text) >>)
         \o Filled(cfg, Tail(text))

\* the replacement of a kept rule cannot be parsed as a template
FailsAtMatchTime(cfg, r) ==
    \E i \in 1..Len(r.replace) : r.replace[i] = "\\1"

\* the text after the first n of the rules, each applied to the output of
\* the one before it
RECURSIVE LeftFold(_, _, _, _)
LeftFold(cfg, rules, text, n) ==
    IF n = 0 THEN text
    ELSE PatternSub(rules[n].pattern, Filled(cfg, rules[n].replace),
                    LeftFold(cfg, rules, text, n - 1))

\* every kept rule of the configuration can be applied
AllRulesApply(cfg) ==
    \A k \in 1..Len(KeptRules(cfg)) : ~FailsAtMatchTime(cfg, KeptRules(cfg)[k])

\* C18 as stated: for every text, transform(text) is the left fold of the
\* rules over the text in configured order, each rule replacing all
\* non-overlapping matches in the output of the rule before it.
C18_TransformIsLeftFold ==
    (probe.fn = "transform" /\ AllRulesApply(config))
        => probe.out = LeftFold(config, KeptRules(config), probe.arg, Len(KeptRules(config)))

\* C18, amended: the same for every text that is not empty; the empty text
\* is returned as it is, with no rule applied.
C18_TransformIsLeftFoldOfNonEmpty ==
    (probe.fn = "transform" /\ AllRulesApply(config))
        => IF probe.arg = << >>
           THEN probe.out = << >>
           ELSE probe.out = LeftFold(config, KeptRules(config), probe.arg, Len(KeptRules(config)))

\* transform was applied under two rules of which the second matches what
\* the first wrote, and the same two rules in the other order give another
\* text
C18_Witness ==
    /\ probe.fn = "transform"
    /\ probe.arg = <<"a">>
    /\ Len(config.replacements) = 2
    /\ config.replacements[1] = [pattern |-> <<"a">>, replace |-> <<"b">>]
    /\ config.replacements[2] = [pattern |-> <<"b">>, replace |-> <<"a", "a">>]
    /\ probe.out = <<"a", "a">>
    /\ transform([config EXCEPT !.replacements = << config.replacements[2], config.replacements[1] >>],
                 probe.arg) = <<"b">>

\* the kept rules that can be applied
ApplicableRules(cfg) == SelectSeq(KeptRules(cfg), LAMBDA r : ~FailsAtMatchTime(cfg, r))

\* C19: a kept rule that raises when it is applied leaves the text as the
\* rules before it made it, and the rules after it are applied to that text;
\* a configured rule whose pattern does not compile is left out when the
\* transformer is loaded, and the other rules (those with a pattern; an
\* entry with an empty pattern is never loaded) are kept in configured order.
C19_FailingRuleIsSkipped ==
    /\ (probe.fn = "transform" /\ probe.arg # << >>)
         => probe.out = LeftFold(config, ApplicableRules(config), probe.arg,
                                 Len(ApplicableRules(config)))
    /\ probe.fn = "__init__"
         => /\ Len(probe.out) = Len(KeptRules(config))
            /\ \A k \in 1..Len(probe.out) : probe.out[k].pattern = KeptRules(config)[k].pattern

\* transform was applied under a rule that raises followed by a rule that
\* matches the text: the text came out as the second rule alone makes it
C19_Witness ==
    /\ probe.fn = "transform"
    /\ probe.arg = <<"b", "a", "a">>
    /\ Len(config.replacements) = 2
    /\ config.replacements[1] = [pattern |-> <<"b">>, replace |-> <<"\\1">>]
    /\ config.replacements[2] = [pattern |-> <<"a">>, replace |-> <<"b">>]
    /\ probe.out = <<"b", "b", "b">>

\* the transformer was loaded from a pattern that does not compile followed
\* by one that does, and kept the second alone
C19_WitnessLoad ==
    /\ probe.fn = "__init__"
    /\ Len(config.replacements) = 2
    /\ config.replacements[1].pattern = <<"(">>
    /\ config.replacements[2].pattern = <<"a">>
    /\ Len(probe.out) = 1
    /\ probe.out[1].pattern = <<"a">>

\* C20: loading replaces, in every replacement string, each {{name}} whose
\* name is my_channel_name, my_username or my_contact_username by the
\* configured value, and leaves each {{name}} of another name as it is.
C20_KnownPlaceholdersFilled ==
    /\ probe.fn = "_substitute_template" => probe.out = Filled(config, probe.arg)
    /\ probe.fn = "__init__"
         => /\ Len(probe.out) = Len(KeptRules(config))
            /\ \A k \in 1..Len(probe.out) :
                 probe.out[k].replace = Filled(config, KeptRules(config)[k].replace)

\* a replacement string with a known and an unknown placeholder was filled
\* in: the configured user name, then the unknown placeholder as written
C20_Witness ==
    /\ probe.fn = "_substitute_template"
    /\ probe.arg = <<"{{my_username}}", "{{other}}">>
    /\ config.my_username = <<"u", "v">>
    /\ probe.out = <<"u", "v", "{{other}}">>

(* ---------------------- claims about the send methods ------------------ *)
\* the send has run at least to its first suspension
SendStarted == send.pc \notin {"none", "called"}

\* the send has ended
SendEnded == send.pc \in {"returned", "failed", "escaped"}

\* the number of times the method has run from its first line
Attempts == IF SendStarted THEN send.depth + 1 ELSE 0

\* the calls of operation op issued so far
CallsOf(op) == { k \in 1..Len(calls) : calls[k].op = op }

\* C21: a non-grouped message without media is sent as text only: every call
\* the send issues is a sendText of the transformed text, each run of the send
\* issues exactly one such call when the text is non-empty, and no client call
\* at all is issued when the text is empty.
C21_TextOnlySend ==
    (send.fn = "_send_to_target" /\ send.message.media = "none") =>
        /\ \A k \in 1..Len(calls) :
              calls[k] = ClientCall("send_message", << >>, send.text, SendBy(send))
        /\ (send.text = << >>) => (calls = << >>)
        /\ (send.text # << >>) => (Len(calls) = Attempts)

\* a text message has been sent with one call, which the client accepted
C21_Witness ==
    /\ send.fn = "_send_to_target" /\ send.message.media = "none"
    /\ send.pc = "returned"
    /\ send.text = <<"a">>
    /\ Len(calls) = 1 /\ calls[1].op = "send_message" /\ calls[1].text = <<"a">>
    /\ send.answers[1].kind = "ok"

\* C22: a message whose media is a web-page preview is sent as text only:
\* the preview is never forwarded or downloaded, every call is a sendText of
\* the transformed text, one per run of the send when the text is non-empty,
\* and nothing is sent when the text is empty.
C22_WebpageSentAsText ==
    (send.fn = "_send_to_target" /\ send.message.media = "webpage") =>
        /\ CallsOf("send_file") = { } /\ CallsOf("download_media") = { }
        /\ \A k \in 1..Len(calls) :
              calls[k] = ClientCall("send_message", << >>, send.text, SendBy(send))
        /\ (send.text = << >>) => (calls = << >>)
        /\ (send.text # << >>) => (Len(calls) = Attempts)

\* a web-page message with text has been sent with one sendText call
C22_Witness ==
    /\ send.fn = "_send_to_target" /\ send.message.media = "webpage"
    /\ send.pc = "returned"
    /\ send.text = <<"a">>
    /\ calls = << ClientCall("send_message", << >>, <<"a">>, SendBy(send)) >>
    /\ send.answers[1].kind = "ok"

\* the file name ends, case-insensitively, with an extension of the
\* configuration's skip_file_extensions list
ExtensionListed(cfg, filename) ==
    \E i \in 1..Len(cfg.skip_file_extensions) :
        EndsWith(Lower(filename), Lower(cfg.skip_file_extensions[i]))

\* C23: a document whose file name ends, case-insensitively, with a listed
\* extension is not sent at all: the send issues no client call for it,
\* neither a media call nor a text fallback.
C23_ListedExtensionNotSent ==
    ( /\ send.fn = "_send_to_target"
      /\ send.message.media = "document"
      /\ send.message.filename # << >>
      /\ ExtensionListed(config, send.message.filename) ) => (calls = << >>)

\* the send of "x.R" with a caption has ended, ".r" being listed, without a call
C23_Witness ==
    /\ send.fn = "_send_to_target"
    /\ send.message.media = "document"
    /\ send.message.filename = <<"x", ".", "R">>
    /\ config.skip_file_extensions = << <<".", "r">> >>
    /\ send.text = <<"a">>
    /\ SendEnded
    /\ calls = << >>

\* the item is excluded by skip-extension
Excluded(cfg, m) ==
    /\ m.media = "document"
    /\ m.filename # << >>
    /\ ExtensionListed(cfg, m.filename)

\* the ids of the items of an album that are not excluded, in the album's order
NotExcludedIds(cfg, messages) ==
    LET kept == SelectSeq(messages, LAMBDA m : ~Excluded(cfg, m))
    IN  [i \in 1..Len(kept) |-> kept[i].id]

\* C24: an album with at least one item that is not excluded by
\* skip-extension is sent as one grouped post per run of the send, whose
\* items are exactly the not excluded items in ascending id order and whose
\* caption is the transformed caption.
C24_AlbumPostedWithoutExcluded ==
    ( /\ send.fn = "_send_media_group"
      /\ SendStarted
      /\ NotExcludedIds(config, send.messages) # << >> ) =>
        /\ \A k \in 1..Len(calls) :
              calls[k] = ClientCall("send_file", NotExcludedIds(config, send.messages),
                                    send.text, SendBy(send))
        /\ Len(calls) = Attempts

\* the send of an album of a photo and a document "x.t" has ended without a call
C24_Witness ==
    /\ send.fn = "_send_media_group"
    /\ Len(send.messages) = 2
    /\ send.messages[1].media = "photo"
    /\ send.messages[2].filename = <<"x", ".", "t">>
    /\ SendEnded
    /\ calls = << >>

\* what holds of the code: an album none of whose documents carries a file
\* name is posted whole
C24_AlbumWithoutFileNamesPosted ==
    ( /\ send.fn = "_send_media_group"
      /\ SendStarted
      /\ \A i \in 1..Len(send.messages) : send.messages[i].filename = << >> ) =>
        /\ \A k \in 1..Len(calls) :
              calls[k] = ClientCall("send_file", [i \in 1..Len(send.messages) |-> send.messages[i].id],
                                    send.text, SendBy(send))
        /\ Len(calls) = Attempts

\* C25: an album whose every item is excluded by skip-extension causes no
\* media send: the caption is sent as text only, once per run of the send,
\* when it is non-empty, and no client call is issued otherwise.
C25_AllExcludedFallsBackToText ==
    ( /\ send.fn = "_send_media_group"
      /\ SendStarted
      /\ NotExcludedIds(config, send.messages) = << >> ) =>
        /\ CallsOf("send_file") = { }
        /\ \A k \in 1..Len(calls) :
              calls[k] = ClientCall("send_message", << >>, send.text, SendBy(send))
        /\ (send.text = << >>) => (calls = << >>)
        /\ (send.text # << >>) => (Len(calls) = Attempts)

\* the send of an album of one document "x.R" with a caption has ended,
\* ".r" being listed, without a call
C25_Witness ==
    /\ send.fn = "_send_media_group"
    /\ Len(send.messages) = 1
    /\ send.messages[1].filename = <<"x", ".", "R">>
    /\ config.skip_file_extensions = << <<".", "r">> >>
    /\ send.text = <<"a">>
    /\ SendEnded
    /\ calls = << >>

\* the calls the client answered with a rate-limit signal
Floods == { k \in 1..Len(send.answers) : send.answers[k].kind = "FloodWaitError" }

\* the retries made so far: the nested calls of the send method
Retries == send.depth

\* a retry follows the signal that caused it no earlier than the wait says,
\* starts with the same client call as the first run, and there are never
\* more retries than signals
RetriesWellFormed ==
    /\ Retries <= Cardinality(Floods)
    /\ \A k \in Floods :
          k + 1 <= Len(calls) =>
              /\ send.issued[k + 1] >= send.answers[k].at + send.answers[k].seconds * TicksPerSecond
              /\ calls[k + 1] = calls[1]

\* C26: for _send_to_target and _send_media_group alike, each rate-limit
\* signal with wait D is followed by exactly one retry with the same
\* arguments, issued no earlier than D after the signal, and no retry is made
\* without a signal: a signal not yet retried belongs to a send that still
\* sleeps, and a send that has ended has retried every signal.
C26_OneRetryPerSignal ==
    SendStarted =>
        /\ RetriesWellFormed
        /\ Retries >= Cardinality(Floods) - 1
        /\ (Retries < Cardinality(Floods)) => (send.pc = "sleeping")

\* the send has ended although its last rate-limit signal was not retried
C26_Witness ==
    /\ SendEnded
    /\ Cardinality(Floods) = RecursionLimit + 1
    /\ Retries = RecursionLimit
    /\ Len(calls) = RecursionLimit + 1

\* what holds of the code: retries are well formed, and every signal received
\* below the recursion limit is retried
C26_RetriedBelowLimit ==
    SendStarted =>
        /\ RetriesWellFormed
        /\ (SendEnded /\ Cardinality(Floods) <= RecursionLimit) => (Retries = Cardinality(Floods))

\* the client's answer to the last call answered so far
LastAnswer == send.answers[Len(send.answers)]

\* the send ends with the answer: an error other than a rate-limit signal, or
\* the success of a send call (a download's result is followed by a send)
EndsOnOtherAnswer ==
    (send.answers # << >>) =>
        /\ (LastAnswer.kind \in {"ChatWriteForbiddenError", "Exception"}) => (send.pc = "failed")
        /\ (LastAnswer.kind = "ok" /\ calls[Len(send.answers)].op # "download_media")
              => (send.pc = "returned")

\* C28: a send retries for as long as the client answers with rate-limit
\* signals, however many they are, so it never ends on a rate-limit signal;
\* and it ends, returned or abandoned, as soon as the client answers a send
\* call with anything else.
C28_RetriesUntilOtherAnswer ==
    /\ (SendEnded /\ send.answers # << >>) => (LastAnswer.kind # "FloodWaitError")
    /\ EndsOnOtherAnswer

\* RecursionError has left the send method after a rate-limit signal
C28_Witness ==
    /\ send.pc = "escaped"
    /\ LastAnswer.kind = "FloodWaitError"
    /\ Cardinality(Floods) = RecursionLimit + 1

\* what holds of the code: the send ends on every answer other than a
\* rate-limit signal, and below the recursion limit it does not end on one
C28_RetriesUpToRecursionLimit ==
    /\ EndsOnOtherAnswer
    /\ (SendEnded /\ send.answers # << >> /\ LastAnswer.kind = "FloodWaitError")
          => (Cardinality(Floods) > RecursionLimit)

\* the client's answer is an error other than a rate-limit signal
PermanentError(a) == a.kind \in {"ChatWriteForbiddenError", "Exception"}

\* C27: when the client answers a call of a send with an error other than a
\* rate-limit signal, the send is abandoned: it has ended, and the failed call
\* is the last client call issued for the message or album.
C27_PermanentErrorAbandons ==
    \A k \in 1..Len(send.answers) :
        PermanentError(send.answers[k]) =>
            /\ send.pc = "failed"
            /\ Len(calls) = k
            /\ Len(send.answers) = k

\* a retried send of a photo was answered write-forbidden and has ended
C27_Witness ==
    /\ send.fn = "_send_to_target" /\ send.message.media = "photo"
    /\ Len(send.answers) = 2
    /\ send.answers[1].kind = "FloodWaitError"
    /\ send.answers[2].kind = "ChatWriteForbiddenError"
    /\ Len(calls) = 2
    /\ send.pc = "failed"

\* the client calls that send something to the target
SendCallIndices == CallsOf("send_message") \cup CallsOf("send_file")

\* the send calls the client has answered with success
Successes == { k \in SendCallIndices : k <= Len(send.answers) /\ send.answers[k].kind = "ok" }

\* C29: for one message or one album batch at most one client send call
\* completes successfully, and a send call that is not the first one is
\* separated from every earlier send call by a rate-limit signal.
C29_AtMostOneSuccessfulSend ==
    /\ Cardinality(Successes) <= 1
    /\ \A j, k \in SendCallIndices :
          (j < k) => (\E f \in Floods : j <= f /\ f < k)

\* a send was rate-limited once, retried and then accepted
C29_Witness ==
    /\ SendCallIndices = {1, 2}
    /\ Floods = {1}
    /\ Successes = {2}
    /\ send.pc = "returned"

\* the downloads of the send that yielded nothing
EmptyDownloads ==
    { k \in CallsOf("download_media") :
        k <= Len(send.answers) /\ send.answers[k].kind = "nothing" }

\* C30: when the media of a non-grouped message has to be downloaded and the
\* download yields nothing, the send goes on without media: its next call is
\* a sendText of the transformed caption when that is non-empty, and it
\* returns without a further call when the caption is empty.
C30_EmptyDownloadFallsBackToText ==
    (send.fn = "_send_to_target" /\ send.message.media = "other") =>
        \A k \in EmptyDownloads :
            IF send.text # << >>
            THEN /\ Len(calls) > k
                 /\ calls[k + 1] = ClientCall("send_message", << >>, send.text, SendBy(send))
            ELSE /\ Len(calls) = k
                 /\ send.pc = "returned"

\* a download yielded nothing and the caption has been sent as text
C30_Witness ==
    /\ send.fn = "_send_to_target" /\ send.message.media = "other"
    /\ send.text = <<"a">>
    /\ send.pc = "returned"
    /\ Len(send.answers) = 2
    /\ EmptyDownloads = {1}
    /\ Len(calls) = 2 /\ calls[2].op = "send_message" /\ calls[2].text = <<"a">>
    /\ send.answers[2].kind = "ok"

TargetFailed ==
    \E k \in 1..Len(startup.resolved) :
        startup.resolved[k].channel = "target" /\ ~startup.resolved[k].ok

\* the entities of the source channels get_entity has resolved
ResolvedSources ==
    { EntityId(startup.resolved[k].channel) :
        k \in { j \in 1..Len(startup.resolved) :
                  startup.resolved[j].channel # "target" /\ startup.resolved[j].ok } }

\* start() has returned or raised
StartEnded == startup.pc \in {"running", "failed"}

\* C32: a target that does not resolve aborts startup at once; a source that
\* does not resolve is only left out of the monitored chats; startup fails
\* exactly when the target does not resolve or no source resolves; and a
\* message event is handled only if it comes from a source that resolved.
C32_ResolutionFailures ==
    /\ TargetFailed =>
          (startup.pc = "failed" /\ Len(startup.resolved) = 1 /\ ~startup.registered)
    /\ (startup.pc = "running") =>
          (startup.registered /\ startup.chats = ResolvedSources)
    /\ StartEnded =>
          ((startup.pc = "failed") <=> (TargetFailed \/ ResolvedSources = { }))
    /\ \A k \in 1..Len(startup.events) :
          startup.events[k].handled =>
              (startup.pc = "running" /\ startup.events[k].chat \in ResolvedSources)

\* "s1" did not resolve and "s2" did: startup succeeded, an event of s1 was
\* not handled and an event of s2 was
C32_Witness ==
    /\ startup.pc = "running"
    /\ startup.resolved = << [channel |-> "target", ok |-> TRUE],
                             [channel |-> "s1", ok |-> FALSE],
                             [channel |-> "s2", ok |-> TRUE] >>
    /\ startup.events = << [chat |-> 1, handled |-> FALSE], [chat |-> 2, handled |-> TRUE] >>

(* ---------------------- claims about the configuration ----------------- *)
\* C33: the configuration yields a value for every field the filter and the
\* send step read, so should_copy returns a decision for every message and
\* _should_skip_file returns an answer for every document file name; neither
\* ends with an exception.
C33_ConfigYieldsEveryField ==
    /\ (probe.fn = "should_copy") => (probe.out.exc = "")
    /\ \A f \in FileNames : _should_skip_file(config, f).exc = ""

\* should_copy was called on a message that is not forwarded and raised
C33_Witness ==
    /\ probe.fn = "should_copy"
    /\ ~probe.arg.fwd_from
    /\ probe.out.exc = "AttributeError"

\* what holds of the code: the two reads that fail are those of the
\* properties class Config does not define
C33_OnlyUndefinedPropertiesFail ==
    /\ (probe.fn = "should_copy" /\ probe.out.exc # "")
          => ("require_keywords" \notin ConfigProperties /\ probe.out.exc = "AttributeError")
    /\ \A f \in FileNames :
          (_should_skip_file(config, f).exc # "")
              => ("skip_file_extensions" \notin ConfigProperties /\ f # << >>)

(* ---------------------- claims about the album stores ------------------ *)
\* C34: between the steps of the handlers and settle tasks, the buffer store
\* and the timer store have the same groupId keys, every stored buffer is
\* non-empty, and every message of the buffer keyed by G carries groupId G.
C34_StoresAgree ==
    /\ DOMAIN media_groups = DOMAIN media_group_tasks
    /\ \A g \in DOMAIN media_groups :
          /\ media_groups[g] # << >>
          /\ \A i \in 1..Len(media_groups[g]) : media_groups[g][i].grouped_id = g

\* an album of two items is buffered and its first timer has been replaced;
\* another album has been settled, which emptied both stores in between
C34_Witness ==
    /\ DOMAIN media_groups = {1}
    /\ Len(media_groups[1]) = 2
    /\ media_group_tasks[1] = 3
    /\ tasks[2].pc = "cancelled"
    /\ tasks[1].pc \in {"returned", "failed"}

\* the step is the handling of a message that carries grouped_id G (0: none)
StepArrival(G) ==
    /\ Len(arrivals') = Len(arrivals) + 1
    /\ arrivals'[Len(arrivals')].msg.grouped_id = G

\* the step is the settle of a task of album G
StepSettle(G) ==
    \E t \in 1..Len(tasks) :
        /\ tasks[t].gid = G
        /\ tasks[t].pc = "ready"
        /\ tasks'[t].pc \in {"returned", "failed", "sending"}

\* the buffer and the pending timer of album g are the same after the step
AlbumUntouched(g) ==
    /\ GroupList(media_groups', g) = GroupList(media_groups, g)
    /\ (g \in DOMAIN media_group_tasks') = (g \in DOMAIN media_group_tasks)
    /\ (g \in DOMAIN media_group_tasks) =>
          /\ media_group_tasks'[g] = media_group_tasks[g]
          /\ tasks'[media_group_tasks[g]] = tasks[media_group_tasks[g]]

\* C35: an arrival or a settle for album G leaves the buffer and the pending
\* timer of every other album unchanged, and handling a message without
\* grouped_id changes neither store.
C35_OtherAlbumsUntouched ==
    [][ \A G \in 0..TwoAlbumGroups :
          (StepArrival(G) \/ StepSettle(G)) =>
              \A g \in (1..TwoAlbumGroups) \ {G} : AlbumUntouched(g) ]_vars

\* album 2 is buffered with a pending timer while album 1 received an item
\* after it, and a message without grouped_id was handled last
C35_Witness ==
    /\ Len(arrivals) = 3
    /\ arrivals[1].msg.grouped_id = 2
    /\ arrivals[2].msg.grouped_id = 1
    /\ arrivals[3].msg.grouped_id = 0
    /\ DOMAIN media_groups = {1, 2}
    /\ Live(media_group_tasks[2])

\* task t was cancelled by a later arrival
WasCancelled(t) == tasks[t].must_cancel \/ tasks[t].pc = "cancelled"

\* the step throws CancelledError into task t
StepCancels(t) ==
    /\ tasks[t].pc \in Suspended /\ tasks[t].must_cancel
    /\ tasks'[t].pc = "cancelled"

\* C36: a settle task cancelled by a later arrival never removes the buffer
\* and never filters or sends, also when it is cancelled after its wait has
\* expired and before it has resumed: it has settled no batch and issued no
\* call, the step that ends it leaves the stores as they are, and the
\* messages buffered for it are still buffered or were settled by a later task.
C36_CancelledTaskDoesNothing ==
    /\ [](\A t \in 1..Len(tasks) :
            WasCancelled(t) =>
                /\ \A k \in 1..Len(settled) : settled[k].task # t
                /\ CallsBy("task", t) = { }
                /\ tasks[t].pc \notin {"sending", "returned", "failed"}
                /\ \/ /\ tasks[t].gid \in DOMAIN media_groups
                      /\ media_group_tasks[tasks[t].gid] > t
                   \/ \E k \in 1..Len(settled) :
                         settled[k].gid = tasks[t].gid /\ settled[k].task > t)
    /\ [][ \A t \in 1..Len(tasks) :
             StepCancels(t) =>
                 /\ media_groups' = media_groups
                 /\ media_group_tasks' = media_group_tasks
                 /\ settled' = settled
                 /\ calls' = calls ]_vars

\* the first task of album 1 was cancelled by an arrival that came when its
\* wait had expired; both items are buffered for the replacement timer
C36_Witness ==
    /\ Len(tasks) = 2
    /\ tasks[1].pc = "cancelled"
    /\ Len(arrivals) = 2
    /\ arrivals[2].at >= tasks[1].deadline
    /\ tasks[1].deadline > 0
    /\ Len(media_groups[1]) = 2
    /\ Live(2)

(* ----------------------- C37, C38: the message logger ---------------------- *)

\* the events _handle_message has finished handling
HandledEvents == { message_logger.events[k] : k \in 1..Len(message_logger.events) }

\* C37: whenever the record queue was full as a message event was handled, the
\* oldest queued record was discarded and the new record was enqueued, and the
\* queue never holds more than max_queue_size entries, whatever the worker's
\* dequeues and stop()'s shutdown signal do in between.
C37_FullQueueDropsOldestAndEnqueues ==
    /\ Len(message_logger.queue) <= MaxQueueSize
    /\ \A e \in HandledEvents :
          e.full => (e.discarded = e.oldest /\ e.enqueued)

\* a record the handler did not enqueue: the queue was full at its first
\* put_nowait and had changed under the handler before it was done
C37_Witness ==
    \E e \in HandledEvents : e.full /\ e.raced /\ ~e.enqueued

\* what does hold: the size bound, and the claim's outcome for every event
\* during which no other thread touched the queue
C37_HoldsWithoutInterleaving ==
    /\ Len(message_logger.queue) <= MaxQueueSize
    /\ \A e \in HandledEvents :
          (e.full /\ ~e.raced) => (e.discarded = e.oldest /\ e.enqueued)

C37_WitnessUndisturbed ==
    \E e \in HandledEvents : e.full /\ ~e.raced /\ e.enqueued /\ e.oldest # NoneSignal

\* the records of a sequence
Range(s) == { s[k] : k \in 1..Len(s) }

\* s is the beginning of t
IsPrefix(s, t) == Len(s) <= Len(t) /\ SubSeq(t, 1, Len(s)) = s

C39_AtMostOneStartThread ==
    Cardinality(ActiveStarts(tray)) <= 1

\* two start threads are active: the second was started after a stop that
\* was issued while the first was still starting up
C39_Witness ==
    /\ Cardinality(ActiveStarts(tray)) = 2
    /\ Len(tray.stops) >= 1

\* C40: after a user stop the state stays STOPPED until the next user start:
\* while the last action of the user that went through is a stop, the state
\* is STOPPED, also when the stop was issued during the startup.
C40_StoppedUntilNextStart ==
    tray.user = "stop" => tray.state = "STOPPED"

\* the state is RUNNING though the last thing the user did was to stop
C40_Witness ==
    /\ tray.user = "stop"
    /\ tray.state = "RUNNING"
    /\ \E S \in 1..Len(tray.stops) : tray.stops[S] = "done"

====
